---- MODULE Spec2Model ----
(***************************************************************************)
(* The poem server: express-rate-limit in front of /api/*, the             *)
(* validatePoemRequest middleware, the POST /api/poem and GET /api/health  *)
(* handlers of the Express server and generatePoem / isOllamaAvailable of  *)
(* services/ollama-service.js.  A request is a process that yields at each *)
(* awaited fetch; the caches and the rate table are shared.                *)
(*                                                                         *)
(* JavaScript strings are TLA+ strings (Len, \o, SubSeq, Head and Tail     *)
(* work on them).  Coordinates are integers in thousandths of a degree.    *)
(***************************************************************************)
EXTENDS Integers, Sequences, FiniteSets, Bags, TLC

VARIABLES env, hits, poems, reqs, last, poemCache, locationNameCache, call, page

vars == <<env, hits, poems, reqs, last, poemCache, locationNameCache, call, page>>

----------------------------------------------------------------------------
(* Bounds of the model *)

\* requests that can be in flight at the same time
NumReq == 2

\* POST /api/poem requests that arrive in one run
MaxPoems == 3

\* requests from one client still counted after the limit has been exceeded
MaxExcess == 1

\* getCurrentPosition calls of the page that can be pending at the same time
MaxLocating == 1

\* POST /api/poem fetches of the page that can be pending at the same time
MaxFetching == 1

\* positions the page obtains in one run
MaxLocations == 2

\* getCurrentPosition calls pending at the same time when the user clicks
\* the refresh-location button before the position has arrived
MaxPending == 2

\* poems stored while the keys of the Poem Cache are examined
MaxStored == 1

----------------------------------------------------------------------------
(* JavaScript values: undefined, null, numbers and strings *)

Undefined == [t |-> "undefined", n |-> 0, s |-> ""]

Null == [t |-> "null", n |-> 0, s |-> ""]

Num(n) == [t |-> "number", n |-> n, s |-> ""]

Str(s) == [t |-> "string", n |-> 0, s |-> s]

\* ToBoolean: what `!v`, `v || d` and `if (v)` test
Truthy(v) ==
  CASE v.t = "number" -> v.n # 0
    [] v.t = "string" -> v.s # ""
    [] OTHER -> FALSE

Char(s, i) == SubSeq(s, i, i)

Digit == {"0", "1", "2", "3", "4", "5", "6", "7", "8", "9"}

WhiteSpace == {" ", "\n", "\t", "\r"}

DigitVal(c) ==
  CASE c = "0" -> 0 [] c = "1" -> 1 [] c = "2" -> 2 [] c = "3" -> 3 [] c = "4" -> 4
    [] c = "5" -> 5 [] c = "6" -> 6 [] c = "7" -> 7 [] c = "8" -> 8 [] c = "9" -> 9

\* the decimal digits of a natural number: String(n), `${n}`
RECURSIVE ToDigits(_)
ToDigits(n) ==
  IF n < 10 THEN Char("0123456789", n + 1)
  ELSE ToDigits(n \div 10) \o Char("0123456789", (n % 10) + 1)

\* String(n).padStart(2, '0')
padStart2(n) == IF Len(ToDigits(n)) < 2 THEN "0" \o ToDigits(n) ELSE ToDigits(n)

\* the value of a string of decimal digits ("" is 0)
RECURSIVE DigitsValue(_)
DigitsValue(s) ==
  IF s = "" THEN 0
  ELSE DigitsValue(SubSeq(s, 1, Len(s) - 1)) * 10 + DigitVal(Char(s, Len(s)))

\* the length of the longest prefix of s made of decimal digits
RECURSIVE DigitPrefixLen(_)
DigitPrefixLen(s) ==
  IF s # "" /\ Head(s) \in Digit THEN 1 + DigitPrefixLen(Tail(s)) ELSE 0

RECURSIVE TrimStart(_)
TrimStart(s) == IF s # "" /\ Head(s) \in WhiteSpace THEN TrimStart(Tail(s)) ELSE s

RECURSIVE TrimEnd(_)
TrimEnd(s) ==
  IF s # "" /\ Char(s, Len(s)) \in WhiteSpace
  THEN TrimEnd(SubSeq(s, 1, Len(s) - 1)) ELSE s

\* String.prototype.trim
trim(s) == TrimEnd(TrimStart(s))

\* String.prototype.includes
includes(s, sub) ==
  \E i \in 1..(Len(s) - Len(sub) + 1) : SubSeq(s, i, i + Len(sub) - 1) = sub

\* degrees in the unit of the model's coordinates, thousandths of a degree
Degrees(d) == d * 1000

\* a parsed number: NaN, or a value
NaN == [nan |-> TRUE, v |-> 0]

Val(n) == [nan |-> FALSE, v |-> n]

\* the first three fractional digits, as thousandths
Thousandths(f) ==
  LET p == SubSeq(f \o "000", 1, 3) IN DigitsValue(p)

\* parseFloat of a string, in thousandths: leading white space, a sign,
\* digits, a fraction.  (No input of the model has an exponent, more than
\* three decimals, or spells Infinity.)
parseFloatStr(s0) ==
  LET s    == TrimStart(s0)
      neg  == s # "" /\ Head(s) = "-"
      s1   == IF s # "" /\ Head(s) \in {"-", "+"} THEN Tail(s) ELSE s
      ni   == DigitPrefixLen(s1)
      rest == SubSeq(s1, ni + 1, Len(s1))
      frac == IF rest # "" /\ Head(rest) = "." THEN Tail(rest) ELSE ""
      nf   == DigitPrefixLen(frac)
      mag  == Degrees(DigitsValue(SubSeq(s1, 1, ni))) + Thousandths(SubSeq(frac, 1, nf))
  IN  IF ni = 0 /\ nf = 0 THEN NaN
      ELSE Val(IF neg THEN 0 - mag ELSE mag)

\* parseFloat(v): a number is converted to a string and read back
parseFloat(v) ==
  CASE v.t = "number" -> Val(v.n)
    [] v.t = "string" -> parseFloatStr(v.s)
    [] OTHER -> NaN

\* parseInt of an environment variable (undefined when unset)
parseInt(v) ==
  IF v.t = "string"
  THEN LET s  == TrimStart(v.s)
           ni == DigitPrefixLen(s)
       IN  IF ni = 0 THEN NaN ELSE Val(DigitsValue(SubSeq(s, 1, ni)))
  ELSE NaN

\* String(v): the conversion a RegExp test applies to its argument
StringOf(v) ==
  CASE v.t = "string" -> v.s
    [] v.t = "number" -> IF v.n < 0 THEN "-" \o ToDigits(0 - v.n) ELSE ToDigits(v.n)
    [] v.t = "null" -> "null"
    [] OTHER -> "undefined"

----------------------------------------------------------------------------
(* Input validation: validateCoordinates, validateTime, validateDate *)

\* validateCoordinates without its test latitude <= 90
validateCoordinatesNoUpperLatitude(lat, lon) ==
  LET latitude  == parseFloat(lat)
      longitude == parseFloat(lon)
  IN  /\ ~latitude.nan
      /\ ~longitude.nan
      /\ latitude.v >= Degrees(0 - 90)
      /\ longitude.v >= Degrees(0 - 180)
      /\ longitude.v <= Degrees(180)

validateCoordinates(lat, lon) ==
  LET latitude  == parseFloat(lat)
      longitude == parseFloat(lon)
  IN  /\ ~latitude.nan
      /\ ~longitude.nan
      /\ latitude.v >= Degrees(0 - 90)
      /\ latitude.v <= Degrees(90)
      /\ longitude.v >= Degrees(0 - 180)
      /\ longitude.v <= Degrees(180)

\* validateTime with any digit after a leading 2: /^([01]\d|2\d):([0-5]\d)$/
validateTimeAnyHour(time) ==
  LET s == StringOf(time)
  IN  /\ Len(s) = 5
      /\ Char(s, 1) \in {"0", "1", "2"} /\ Char(s, 2) \in Digit
      /\ Char(s, 3) = ":"
      /\ Char(s, 4) \in {"0", "1", "2", "3", "4", "5"}
      /\ Char(s, 5) \in Digit

\* /^([01]\d|2[0-3]):([0-5]\d)$/
validateTime(time) ==
  LET s == StringOf(time)
  IN  /\ Len(s) = 5
      /\ \/ Char(s, 1) \in {"0", "1"} /\ Char(s, 2) \in Digit
         \/ Char(s, 1) = "2" /\ Char(s, 2) \in {"0", "1", "2", "3"}
      /\ Char(s, 3) = ":"
      /\ Char(s, 4) \in {"0", "1", "2", "3", "4", "5"}
      /\ Char(s, 5) \in Digit

\* validateDate without the end anchor: /^\d{4}-\d{2}-\d{2}/
validateDateUnanchored(date) ==
  LET s == StringOf(date)
  IN  /\ Len(s) >= 10
      /\ \A i \in {1, 2, 3, 4, 6, 7, 9, 10} : Char(s, i) \in Digit
      /\ Char(s, 5) = "-"
      /\ Char(s, 8) = "-"

\* /^\d{4}-\d{2}-\d{2}$/
validateDate(date) ==
  LET s == StringOf(date)
  IN  /\ Len(s) = 10
      /\ \A i \in {1, 2, 3, 4, 6, 7, 9, 10} : Char(s, i) \in Digit
      /\ Char(s, 5) = "-"
      /\ Char(s, 8) = "-"

\* validatePoemRequest: rejected (400), or the body handed to the handler
\* with time and date replaced by the server's clock where needed.
\* now is [hours, minutes, iso]: getHours(), getMinutes(), toISOString().
validatePoemRequest(body, now) ==
  IF ~Truthy(body.latitude) \/ ~Truthy(body.longitude)
       \/ ~validateCoordinates(body.latitude, body.longitude)
  THEN [rejected |-> TRUE, body |-> body]
  ELSE [rejected |-> FALSE,
        body |-> [latitude  |-> body.latitude,
                  longitude |-> body.longitude,
                  time |-> IF ~Truthy(body.time) \/ ~validateTime(body.time)
                           THEN Str(padStart2(now.hours) \o ":" \o padStart2(now.minutes))
                           ELSE body.time,
                  date |-> IF ~Truthy(body.date) \/ ~validateDate(body.date)
                           THEN Str(SubSeq(now.iso, 1, 10))
                           ELSE body.date]]

----------------------------------------------------------------------------
(* Location resolution of the server: getLocationInfo, formatLocationInfo *)

\* An address of the geocoder.  A field that is absent and a field that is
\* the empty string are both "": the code only tests them for truthiness.
NoAddress ==
  [city |-> "", town |-> "", village |-> "", state |-> "", county |-> "", country |-> ""]

\* The body of a geocoder response: JSON null, or an object with or without
\* a (truthy) address.
NullData == [isNull |-> TRUE, hasAddress |-> FALSE, address |-> NoAddress]

\* A fetch outcome of the geocoder: the fetch rejects, or a response with a
\* status whose body parses as JSON or not.
GeoOutcome(rejects, status, parses, data) ==
  [rejects |-> rejects, status |-> status, parses |-> parses, data |-> data]

\* response.ok
Ok(status) == status >= 200 /\ status <= 299

\* getLocationInfo: the parsed body, or null after any failure
getLocationInfo(o) ==
  IF o.rejects \/ ~Ok(o.status) \/ ~o.parses THEN NullData ELSE o.data

\* Array.prototype.join(', ')
RECURSIVE join(_)
join(parts) ==
  IF parts = <<>> THEN ""
  ELSE IF Len(parts) = 1 THEN parts[1]
  ELSE parts[1] \o ", " \o join(Tail(parts))

\* a || b || c on strings
OrElse(a, b) == IF a # "" THEN a ELSE b

\* formatLocationInfo returning the joined parts even when there are none
formatLocationInfoJoinOnly(locationData) ==
  IF locationData.isNull \/ ~locationData.hasAddress THEN "unknown location"
  ELSE LET address == locationData.address
           p1 == IF address.city # "" \/ address.town # "" \/ address.village # ""
                 THEN <<OrElse(address.city, OrElse(address.town, address.village))>>
                 ELSE <<>>
           p2 == IF address.state # "" \/ address.county # ""
                 THEN <<OrElse(address.state, address.county)>>
                 ELSE <<>>
           p3 == IF address.country # "" THEN <<address.country>> ELSE <<>>
       IN  join(p1 \o p2 \o p3)

\* formatLocationInfo returning '' for null data or a missing address
formatLocationInfoEmptyOnNull(locationData) ==
  IF locationData.isNull \/ ~locationData.hasAddress THEN ""
  ELSE LET address == locationData.address
           p1 == IF address.city # "" \/ address.town # "" \/ address.village # ""
                 THEN <<OrElse(address.city, OrElse(address.town, address.village))>>
                 ELSE <<>>
           p2 == IF address.state # "" \/ address.county # ""
                 THEN <<OrElse(address.state, address.county)>>
                 ELSE <<>>
           p3 == IF address.country # "" THEN <<address.country>> ELSE <<>>
           parts == p1 \o p2 \o p3
       IN  IF Len(parts) > 0 THEN join(parts) ELSE "unknown location"

formatLocationInfo(locationData) ==
  IF locationData.isNull \/ ~locationData.hasAddress THEN "unknown location"
  ELSE LET address == locationData.address
           p1 == IF address.city # "" \/ address.town # "" \/ address.village # ""
                 THEN <<OrElse(address.city, OrElse(address.town, address.village))>>
                 ELSE <<>>
           p2 == IF address.state # "" \/ address.county # ""
                 THEN <<OrElse(address.state, address.county)>>
                 ELSE <<>>
           p3 == IF address.country # "" THEN <<address.country>> ELSE <<>>
           parts == p1 \o p2 \o p3
       IN  IF Len(parts) > 0 THEN join(parts) ELSE "unknown location"

\* Number.prototype.toFixed(2) of a coordinate: the sign it prints and the
\* hundredths (no input of the model lies halfway between two hundredths)
toFixed2(n) ==
  LET a == IF n < 0 THEN 0 - n ELSE n
      h == (a + 5) \div 10
  IN  [neg |-> n < 0, h |-> h]

----------------------------------------------------------------------------
(* services/ollama-service.js *)

\* A fetch outcome of the generation service: the fetch rejects, or a
\* response with a status whose body parses as JSON or not; the parsed body
\* is null or an object whose response field is a JavaScript value.
OllamaOutcome(rejects, status, parses, isNull, response) ==
  [rejects |-> rejects, status |-> status, parses |-> parses,
   isNull |-> isNull, response |-> response]

\* isOllamaAvailable testing Boolean(data) instead of data.response
isOllamaAvailableAnyBody(o) ==
  IF o.rejects THEN FALSE
  ELSE IF ~Ok(o.status) THEN FALSE
  ELSE IF ~o.parses THEN FALSE
  ELSE ~o.isNull

\* isOllamaAvailable taking any answer of the service for availability
isOllamaAvailableOnAnyAnswer(o) == ~o.rejects

\* isOllamaAvailable, on the outcome of its fetch
isOllamaAvailable(o) ==
  IF o.rejects THEN FALSE
  ELSE IF ~Ok(o.status) THEN FALSE
  ELSE IF ~o.parses THEN FALSE
  ELSE ~o.isNull /\ Truthy(o.response)

\* CACHE_TTL = parseInt(process.env.CACHE_TTL || '3600000', 10): read when
\* the service is loaded, and used nowhere
CACHE_TTL ==
  parseInt(IF Truthy(env.CACHE_TTL) THEN env.CACHE_TTL ELSE Str("3600000"))

UnavailableMessage ==
  "Sorry, the poem generation service is currently unavailable. Please try again later."

cacheKey(location, time, date) == location \o "-" \o time \o "-" \o date

buildPrompt(location, time, date) ==
  "Write a poem about " \o location \o " at " \o time \o " on " \o date
    \o ". The poem should be evocative and reflect the mood of the time and place."

FetchErrorMessage ==
  "request to http://localhost:11434/api/generate failed, reason: connect ECONNREFUSED 127.0.0.1:11434"

\* generatePoemResult throwing one error for every failure
generatePoemResultOneError(o) ==
  IF o.rejects \/ ~Ok(o.status) \/ ~o.parses \/ o.isNull \/ ~Truthy(o.response)
       \/ o.response.t # "string"
  THEN [threw |-> TRUE, v |-> "Failed to generate poem"]
  ELSE [threw |-> FALSE, v |-> trim(o.response.s)]

\* generatePoemResult returning the message of a failure as the poem
generatePoemResultReturnsError(o) ==
  IF o.rejects THEN [threw |-> FALSE, v |-> UnavailableMessage]
  ELSE IF ~Ok(o.status)
  THEN [threw |-> FALSE, v |-> UnavailableMessage]
  ELSE IF ~o.parses
  THEN [threw |-> FALSE, v |-> UnavailableMessage]
  ELSE IF o.isNull \/ ~Truthy(o.response)
  THEN [threw |-> FALSE, v |-> UnavailableMessage]
  ELSE IF o.response.t # "string"
  THEN [threw |-> TRUE, v |-> "data.response.trim is not a function"]
  ELSE [threw |-> FALSE, v |-> trim(o.response.s)]

\* generatePoemResult returning the response field as received
generatePoemResultUntrimmed(o) ==
  IF o.rejects THEN [threw |-> TRUE, v |-> FetchErrorMessage]
  ELSE IF ~Ok(o.status)
  THEN [threw |-> TRUE, v |-> "Ollama API returned status: " \o ToDigits(o.status)]
  ELSE IF ~o.parses
  THEN [threw |-> TRUE, v |-> "Failed to parse Ollama API response"]
  ELSE IF o.isNull \/ ~Truthy(o.response)
  THEN [threw |-> TRUE, v |-> "Unexpected Ollama API response format"]
  ELSE IF o.response.t # "string"
  THEN [threw |-> TRUE, v |-> "data.response.trim is not a function"]
  ELSE [threw |-> FALSE, v |-> o.response.s]

\* The part of generatePoem after its fetch: it throws an error with a
\* message, or returns the trimmed response field (which it has cached).
generatePoemResult(o) ==
  IF o.rejects THEN [threw |-> TRUE, v |-> FetchErrorMessage]
  ELSE IF ~Ok(o.status)
  THEN [threw |-> TRUE, v |-> "Ollama API returned status: " \o ToDigits(o.status)]
  ELSE IF ~o.parses
  THEN [threw |-> TRUE, v |-> "Failed to parse Ollama API response"]
  ELSE IF o.isNull \/ ~Truthy(o.response)
  THEN [threw |-> TRUE, v |-> "Unexpected Ollama API response format"]
  ELSE IF o.response.t # "string"
  THEN [threw |-> TRUE, v |-> "data.response.trim is not a function"]
  ELSE [threw |-> FALSE, v |-> trim(o.response.s)]

\* What one call of generatePoem reports to its caller when its probe ends
\* with outcome po and, if it gets that far, finds its key cached or not
\* and its real generation call ends with outcome go.
generatePoemReport(po, cached, go) ==
  IF ~isOllamaAvailable(po) THEN [threw |-> FALSE, v |-> UnavailableMessage]
  ELSE IF cached.hit THEN [threw |-> FALSE, v |-> cached.poem]
  ELSE generatePoemResult(go)

\* String.prototype.split with a one-character separator
RECURSIVE split(_, _)
split(s, sep) ==
  IF \E i \in 1..Len(s) : Char(s, i) = sep
  THEN LET i == CHOOSE j \in 1..Len(s) :
                  Char(s, j) = sep /\ \A k \in 1..(j - 1) : Char(s, k) # sep
       IN  <<SubSeq(s, 1, i - 1)>> \o split(SubSeq(s, i + 1, Len(s)), sep)
  ELSE <<s>>

\* Number(s) of a string: white space is trimmed, "" is 0, a string of
\* digits is its value, anything else the model enumerates is NaN
Number(s) ==
  LET t == trim(s)
  IN  IF DigitPrefixLen(t) = Len(t) THEN Val(DigitsValue(t)) ELSE NaN

\* element i of array.map(Number) after destructuring: undefined when the
\* array is shorter, and undefined compares like NaN
Component(parts, i) == IF i <= Len(parts) THEN Number(parts[i]) ELSE NaN

NullContext == [isNull |-> TRUE, timeOfDay |-> "", season |-> ""]

\* getContextInfo with the test hour <= 12 for the morning
getContextInfoNoonIsMorning(timeStr, dateStr) ==
  IF timeStr.t # "string" \/ dateStr.t # "string" THEN NullContext
  ELSE LET hm     == split(timeStr.s, ":")
           ymd    == split(dateStr.s, "-")
           hour   == Component(hm, 1)
           minute == Component(hm, 2)
           year   == Component(ymd, 1)
           month  == Component(ymd, 2)
           day    == Component(ymd, 3)
           timeOfDay ==
             IF ~hour.nan /\ hour.v >= 5 /\ hour.v <= 12 THEN "morning"
             ELSE IF ~hour.nan /\ hour.v >= 12 /\ hour.v < 17 THEN "afternoon"
             ELSE IF ~hour.nan /\ hour.v >= 17 /\ hour.v < 21 THEN "evening"
             ELSE "night"
           season ==
             IF ~month.nan /\ month.v >= 3 /\ month.v <= 5 THEN "spring"
             ELSE IF ~month.nan /\ month.v >= 6 /\ month.v <= 8 THEN "summer"
             ELSE IF ~month.nan /\ month.v >= 9 /\ month.v <= 11 THEN "autumn"
             ELSE "winter"
       IN  IF hour.nan \/ minute.nan \/ year.nan \/ month.nan \/ day.nan
           THEN NullContext
           ELSE [isNull |-> FALSE, timeOfDay |-> timeOfDay, season |-> season]

\* getContextInfo with the test month > 3 for the spring
getContextInfoMarchIsWinter(timeStr, dateStr) ==
  IF timeStr.t # "string" \/ dateStr.t # "string" THEN NullContext
  ELSE LET hm     == split(timeStr.s, ":")
           ymd    == split(dateStr.s, "-")
           hour   == Component(hm, 1)
           minute == Component(hm, 2)
           year   == Component(ymd, 1)
           month  == Component(ymd, 2)
           day    == Component(ymd, 3)
           timeOfDay ==
             IF ~hour.nan /\ hour.v >= 5 /\ hour.v < 12 THEN "morning"
             ELSE IF ~hour.nan /\ hour.v >= 12 /\ hour.v < 17 THEN "afternoon"
             ELSE IF ~hour.nan /\ hour.v >= 17 /\ hour.v < 21 THEN "evening"
             ELSE "night"
           season ==
             IF ~month.nan /\ month.v > 3 /\ month.v <= 5 THEN "spring"
             ELSE IF ~month.nan /\ month.v >= 6 /\ month.v <= 8 THEN "summer"
             ELSE IF ~month.nan /\ month.v >= 9 /\ month.v <= 11 THEN "autumn"
             ELSE "winter"
       IN  IF hour.nan \/ minute.nan \/ year.nan \/ month.nan \/ day.nan
           THEN NullContext
           ELSE [isNull |-> FALSE, timeOfDay |-> timeOfDay, season |-> season]

\* getContextInfo without the datetime field, whose construction throws on
\* components that are not numbers
getContextInfoNoDatetime(timeStr, dateStr) ==
  IF timeStr.t # "string" \/ dateStr.t # "string" THEN NullContext
  ELSE LET hm     == split(timeStr.s, ":")
           ymd    == split(dateStr.s, "-")
           hour   == Component(hm, 1)
           month  == Component(ymd, 2)
           timeOfDay ==
             IF ~hour.nan /\ hour.v >= 5 /\ hour.v < 12 THEN "morning"
             ELSE IF ~hour.nan /\ hour.v >= 12 /\ hour.v < 17 THEN "afternoon"
             ELSE IF ~hour.nan /\ hour.v >= 17 /\ hour.v < 21 THEN "evening"
             ELSE "night"
           season ==
             IF ~month.nan /\ month.v >= 3 /\ month.v <= 5 THEN "spring"
             ELSE IF ~month.nan /\ month.v >= 6 /\ month.v <= 8 THEN "summer"
             ELSE IF ~month.nan /\ month.v >= 9 /\ month.v <= 11 THEN "autumn"
             ELSE "winter"
       IN  [isNull |-> FALSE, timeOfDay |-> timeOfDay, season |-> season]

\* getContextInfo: null when a string is missing (split throws) or when a
\* component is not a number (toISOString throws on the invalid Date).
\* The datetime field of the result is not modelled.
getContextInfo(timeStr, dateStr) ==
  IF timeStr.t # "string" \/ dateStr.t # "string" THEN NullContext
  ELSE LET hm     == split(timeStr.s, ":")
           ymd    == split(dateStr.s, "-")
           hour   == Component(hm, 1)
           minute == Component(hm, 2)
           year   == Component(ymd, 1)
           month  == Component(ymd, 2)
           day    == Component(ymd, 3)
           timeOfDay ==
             IF ~hour.nan /\ hour.v >= 5 /\ hour.v < 12 THEN "morning"
             ELSE IF ~hour.nan /\ hour.v >= 12 /\ hour.v < 17 THEN "afternoon"
             ELSE IF ~hour.nan /\ hour.v >= 17 /\ hour.v < 21 THEN "evening"
             ELSE "night"
           season ==
             IF ~month.nan /\ month.v >= 3 /\ month.v <= 5 THEN "spring"
             ELSE IF ~month.nan /\ month.v >= 6 /\ month.v <= 8 THEN "summer"
             ELSE IF ~month.nan /\ month.v >= 9 /\ month.v <= 11 THEN "autumn"
             ELSE "winter"
       IN  IF hour.nan \/ minute.nan \/ year.nan \/ month.nan \/ day.nan
           THEN NullContext
           ELSE [isNull |-> FALSE, timeOfDay |-> timeOfDay, season |-> season]

\* generateFallbackPoem without the defaults 'moment' and 'season'
generateFallbackPoemNoDefault(time, date, location, contextInfo) ==
  LET timeOfDay == contextInfo.timeOfDay
      season    == contextInfo.season
  IN  "\"A " \o timeOfDay \o " in " \o location \o "\"\n\n"
      \o "In this " \o timeOfDay \o " hour, at " \o time \o ",\n"
      \o "The world unfolds in " \o season \o "'s prime.\n"
      \o location \o "'s beauty, a sight to behold,\n"
      \o "As " \o date \o "'s story begins to unfold.\n\n"
      \o "The rhythm of time, a gentle beat,\n"
      \o "In this moment, our hearts complete.\n"
      \o "A poem awaits, in future's hand,\n"
      \o "When systems align, as we planned."

\* generateFallbackPoem (defined by the service; neither called nor exported)
generateFallbackPoem(time, date, location, contextInfo) ==
  LET timeOfDay == IF contextInfo.isNull THEN "moment"
                   ELSE OrElse(contextInfo.timeOfDay, "moment")
      season    == IF contextInfo.isNull THEN "season"
                   ELSE OrElse(contextInfo.season, "season")
  IN  "\"A " \o timeOfDay \o " in " \o location \o "\"\n\n"
      \o "In this " \o timeOfDay \o " hour, at " \o time \o ",\n"
      \o "The world unfolds in " \o season \o "'s prime.\n"
      \o location \o "'s beauty, a sight to behold,\n"
      \o "As " \o date \o "'s story begins to unfold.\n\n"
      \o "The rhythm of time, a gentle beat,\n"
      \o "In this moment, our hearts complete.\n"
      \o "A poem awaits, in future's hand,\n"
      \o "When systems align, as we planned."

\* A call of one of the service's functions that does no I/O: the function,
\* its arguments and what it returned.  (hour and month are the numbers the
\* time and date strings were written from.)
NoCall ==
  [fn |-> "", timeStr |-> Undefined, dateStr |-> Undefined, hour |-> 0, month |-> 0,
   location |-> "", contextInfo |-> NullContext, locationData |-> NullData,
   context |-> NullContext, text |-> "",
   probe |-> OllamaOutcome(TRUE, 0, FALSE, FALSE, Undefined),
   gen |-> OllamaOutcome(TRUE, 0, FALSE, FALSE, Undefined),
   ret |-> [threw |-> FALSE, v |-> ""]]

----------------------------------------------------------------------------
(* The rate limiter and the HTTP responses *)

\* max: parseInt(process.env.RATE_LIMIT_MAX_REQUESTS) || 100
rateLimitMax ==
  LET p == parseInt(env.RATE_LIMIT_MAX_REQUESTS)
  IN  IF p.nan \/ p.v = 0 THEN 100 ELSE p.v

\* An HTTP response: the status code, the kind of body, and the fields of
\* the JSON body (state is the body's own status field).
Response(status, kind, poem, error, details, ollama) ==
  [status |-> status, kind |-> kind, poem |-> poem, error |-> error,
   details |-> details, ollama |-> ollama, state |-> "", locationName |-> ""]

NoResponse == Response(0, "none", "", "", "", "")

\* the limiter's answer to a request over the limit
TooManyRequests ==
  Response(429, "text", "", "Too many requests, please try again later.", "", "")

\* The answer to a body that is not JSON: express.json() passes the parse
\* error on, the later middleware (the limiter among them) is skipped and
\* the default error handler sends 400 with a page.
UnparsedBody == Response(400, "html", "", "Bad Request", "", "")

\* res.status(400).json({ error: ... })
BadRequest ==
  Response(400, "error", "", "Valid latitude and longitude are required", "", "")

\* poemResponse without the handler's test if (!poem)
poemResponseNoCheck(ret) ==
  IF ret.threw
  THEN Response(500, "error", "", "Failed to generate poem", ret.v, "")
  ELSE Response(200, "poem", ret.v, "", "", "")

\* The end of the POST /api/poem handler, on what generatePoem returned
\* (ret.threw = FALSE, ret.v the poem) or threw (ret.v the message).
poemResponse(ret) ==
  IF ret.threw
  THEN Response(500, "error", "", "Failed to generate poem", ret.v, "")
  ELSE IF ret.v = ""
  THEN Response(500, "error", "", "Failed to generate poem", "", "")
  ELSE Response(200, "poem", ret.v, "", "", "")

\* healthResponse with the two values of the ollama field exchanged
healthResponseSwapped(ollamaAvailable) ==
  [Response(200, "health", "", "", "",
            IF ollamaAvailable THEN "unavailable" ELSE "available")
     EXCEPT !.state = "ok"]

\* the answer of GET /api/health: { status: 'ok', ollama, model }
healthResponse(ollamaAvailable) ==
  [Response(200, "health", "", "", "",
            IF ollamaAvailable THEN "available" ELSE "unavailable")
     EXCEPT !.state = "ok"]

\* the answer of GET /api/location: { locationName }
locationResponse(locationName) ==
  [Response(200, "location", "", "", "", "") EXCEPT !.locationName = locationName]

----------------------------------------------------------------------------
(* Requests *)

Client == {"10.0.0.1", "10.0.0.2"}

\* the client the poem page is served to
PoemClient == {"10.0.0.1"}

NoBody == [latitude |-> Undefined, longitude |-> Undefined,
           time |-> Undefined, date |-> Undefined]

Body(lat, lon, time, date) ==
  [latitude |-> lat, longitude |-> lon, time |-> time, date |-> date]

\* A request: where its handler is suspended (pc), req.body (as received,
\* then as validatePoemRequest leaves it), the handler's locals, and a
\* record of what it did: the calls it issued, the cache writes, how its
\* upstream calls ended, the response field the real generation call
\* received (raw), what generatePoem returned, the response sent.  For a
\* call of getLocationName: the value it returned (name) and whether the
\* call that returned last before it had failed for the same key (retry).
IdleReq ==
  [pc |-> "idle", route |-> "", body |-> NoBody,
   locationInfo |-> "", prompt |-> "",
   geoCalls |-> 0, probeCalls |-> 0, genCalls |-> 0, cacheWrites |-> 0,
   geoFailed |-> FALSE, probeFailed |-> FALSE, genFailed |-> FALSE,
   cachedAtCall |-> [hit |-> FALSE, poem |-> ""],
   raw |-> Undefined,
   ret |-> [threw |-> FALSE, v |-> ""], returned |-> FALSE,
   name |-> Undefined, retry |-> FALSE,
   res |-> NoResponse]

NewReq(route, body) == [IdleReq EXCEPT !.route = route, !.body = body]

\* the requests in flight (reqs is a bag: two requests can be equal)
InFlight == BagToSet(reqs)

\* a request starts its first await with record q
Enter(q) == reqs' = reqs (+) SetToBag({q})

\* the request with record q goes on to its next await with record q2
Continue(q, q2) == reqs' = (reqs (-) SetToBag({q})) (+) SetToBag({q2})

\* the request with record q ends with record q2, which is on its way to
\* the client with its response
Complete(q, q2) ==
  /\ last' = [q2 EXCEPT !.pc = "done"]
  /\ reqs' = reqs (-) SetToBag({q})

\* a request ends without an await, with record q
Answer(q) ==
  /\ last' = [q EXCEPT !.pc = "done"]
  /\ UNCHANGED reqs

\* No response is on its way.  The server's steps are interleaved with the
\* sending of a response in one order only: the response leaves first.
Quiet == last = IdleReq

\* the server takes another request
Accepting == Quiet /\ BagCardinality(reqs) < NumReq

\* An upstream call failed: the service was unreachable, answered an error
\* status, sent a body that is not JSON, or sent JSON without a usable field.
Failed(o, usable) == o.rejects \/ ~Ok(o.status) \/ ~o.parses \/ ~usable

\* the response field of a generation-service answer is a non-empty string
\* or another non-empty value
HasResponse(o) ==
  /\ ~o.isNull
  /\ o.response.t \notin {"undefined", "null"}
  /\ o.response # Str("")

\* the geocoder's answer has a non-empty address object
HasAddress(o) == ~o.data.isNull /\ o.data.hasAddress /\ o.data.address # NoAddress

----------------------------------------------------------------------------
(* The page: public/index.html and public/script.js *)

\* userLocation: null, or { latitude, longitude }
NoLocation == [set |-> FALSE, latitude |-> 0, longitude |-> 0]

Position(latitude, longitude) ==
  [set |-> TRUE, latitude |-> latitude, longitude |-> longitude]

\* a timer made by setInterval(fn, period): period and the time left until
\* it fires next, in seconds
Timer(id, fn, period) == [id |-> id, fn |-> fn, period |-> period, left |-> period]

\* Number.prototype.toFixed(4) of a coordinate
toFixed4(n) ==
  LET a == IF n < 0 THEN 0 - n ELSE n
      f == ToDigits(a % 1000)
      frac == IF Len(f) = 1 THEN "00" \o f ELSE IF Len(f) = 2 THEN "0" \o f ELSE f
  IN  (IF n < 0 THEN "-" ELSE "") \o ToDigits(a \div 1000) \o "." \o frac \o "0"

\* Array.prototype.join('\n')
RECURSIVE joinLines(_)
joinLines(lines) ==
  IF lines = <<>> THEN ""
  ELSE IF Len(lines) = 1 THEN lines[1]
  ELSE lines[1] \o "\n" \o joinLines(Tail(lines))

\* the positions i < j of a match of /"([^"]+)"/ in line: two quotes with at
\* least one character and no quote between them
QuotedAt(line, i, j) ==
  /\ Char(line, i) = "\"" /\ Char(line, j) = "\""
  /\ j >= i + 2
  /\ \A k \in (i + 1)..(j - 1) : Char(line, k) # "\""

\* line.match(/"([^"]+)"/): whether it matches, and its first group
titleMatch(line) ==
  LET starts == {i \in 1..Len(line) : \E j \in 1..Len(line) : QuotedAt(line, i, j)}
  IN  IF starts = {} THEN [matches |-> FALSE, title |-> ""]
      ELSE LET i == CHOOSE x \in starts : \A y \in starts : x <= y
               j == CHOOSE y \in 1..Len(line) : QuotedAt(line, i, y)
           IN  [matches |-> TRUE, title |-> SubSeq(line, i + 1, j - 1)]

showLoading(p) ==
  [p EXCEPT !.loadingHidden = FALSE, !.poemHidden = TRUE, !.errorHidden = TRUE]

hideLoading(p) == [p EXCEPT !.loadingHidden = TRUE]

\* showError that leaves the loading panel as it is
showErrorKeepLoading(p, message) ==
  [p EXCEPT !.errorText = message, !.errorHidden = FALSE, !.poemHidden = TRUE]

showError(p, message) ==
  [p EXCEPT !.errorText = message, !.errorHidden = FALSE,
            !.loadingHidden = TRUE, !.poemHidden = TRUE]

\* displayPoem without its test for the server's unavailability sentence
displayPoemAnyText(p, poemTextContent) ==
  IF poemTextContent = "" THEN showError(p, "No poem content received.")
  ELSE LET lines == split(trim(poemTextContent), "\n")
           m     == titleMatch(lines[1])
           title == IF m.matches THEN m.title ELSE "Poem of the Moment"
           poemBody == IF m.matches THEN trim(joinLines(Tail(lines)))
                       ELSE poemTextContent
       IN  [hideLoading(p) EXCEPT !.poemTitle = title, !.poemText = poemBody,
                                  !.poemHidden = FALSE, !.errorHidden = TRUE]

\* displayPoem of a string
displayPoem(p, poemTextContent) ==
  IF poemTextContent = "" THEN showError(p, "No poem content received.")
  ELSE IF includes(poemTextContent,
                   "Sorry, the poem generation service is currently unavailable")
  THEN showError(p, "The poem generation service is currently unavailable. Please try again later.")
  ELSE LET lines == split(trim(poemTextContent), "\n")
           m     == titleMatch(lines[1])
           title == IF m.matches THEN m.title ELSE "Poem of the Moment"
           poemBody == IF m.matches THEN trim(joinLines(Tail(lines)))
                       ELSE poemTextContent
       IN  [hideLoading(p) EXCEPT !.poemTitle = title, !.poemText = poemBody,
                                  !.poemHidden = FALSE, !.errorHidden = TRUE]

\* generatePoem of the page without its test of userLocation
generatePoemAnyLocation(p) == [showLoading(p) EXCEPT !.fetching = @ + 1]

\* generatePoem of the page, up to its await: the fetch of POST /api/poem
generatePoem(p) ==
  IF ~p.userLocation.set THEN showError(p, "Location is required to generate a poem.")
  ELSE [showLoading(p) EXCEPT !.fetching = @ + 1]

\* setupRefreshInterval that does not clear the intervals it replaces
setupRefreshIntervalNoClear(p) ==
  [p EXCEPT !.timers = p.timers \cup {Timer(p.nextTimer, "generatePoem", 60),
                                      Timer(p.nextTimer + 1, "countdown", 1)},
            !.countdown = 60, !.countdownText = 60,
            !.refreshInterval = p.nextTimer,
            !.countdownInterval = p.nextTimer + 1,
            !.nextTimer = @ + 2]

\* setupRefreshInterval that clears the refresh interval only
setupRefreshIntervalKeepCountdown(p) ==
  LET kept == {t \in p.timers : ~(p.refreshInterval # 0 /\ t.id = p.refreshInterval)}
  IN  [p EXCEPT !.timers = kept \cup {Timer(p.nextTimer, "generatePoem", 60),
                                      Timer(p.nextTimer + 1, "countdown", 1)},
                !.countdown = 60, !.countdownText = 60,
                !.refreshInterval = p.nextTimer,
                !.countdownInterval = p.nextTimer + 1,
                !.nextTimer = @ + 2]

setupRefreshInterval(p) ==
  LET kept == {t \in p.timers :
                 /\ ~(p.refreshInterval # 0 /\ t.id = p.refreshInterval)
                 /\ ~(p.countdownInterval # 0 /\ t.id = p.countdownInterval)}
  IN  [p EXCEPT !.timers = kept \cup {Timer(p.nextTimer, "generatePoem", 60),
                                      Timer(p.nextTimer + 1, "countdown", 1)},
                !.countdown = 60, !.countdownText = 60,
                !.refreshInterval = p.nextTimer,
                !.countdownInterval = p.nextTimer + 1,
                !.nextTimer = @ + 2]

\* the callback of the countdown interval with the test countdown < 0
countdownTickBelowZero(p) ==
  LET c == p.countdown - 1
  IN  [p EXCEPT !.countdown = IF c < 0 THEN 60 ELSE c, !.countdownText = c]

\* the callback of the countdown interval
countdownTick(p) ==
  LET c == p.countdown - 1
  IN  [p EXCEPT !.countdown = IF c <= 0 THEN 60 ELSE c, !.countdownText = c]

\* requestLocation, up to the callbacks of getCurrentPosition
requestLocation(p) ==
  IF p.geolocation
  THEN [p EXCEPT !.locationDisplay = "Requesting location...", !.locating = @ + 1]
  ELSE [showError(p, "Your browser does not support geolocation.")
          EXCEPT !.locationDisplay = "Geolocation not supported"]

\* The page as index.html describes it.  Timer 1 is the interval of
\* updateTimeAndDate; the time and date displays are not modelled.
\* sincePoem records the seconds since the position callback or the
\* refresh timer last called generatePoem (-1 before the first).
Document(geolocation) ==
  [geolocation |-> geolocation,
   userLocation |-> NoLocation,
   refreshInterval |-> 0, countdownInterval |-> 0, countdown |-> 60,
   timers |-> {}, nextTimer |-> 2,
   locating |-> 0, fetching |-> 0,
   locationDisplay |-> "Waiting for location...",
   loadingHidden |-> FALSE, poemHidden |-> TRUE, errorHidden |-> TRUE,
   poemTitle |-> "", poemText |-> "",
   errorText |-> "Sorry, we couldn't generate a poem. Please try again later.",
   countdownText |-> 60,
   sincePoem |-> 0 - 1]

\* the page after DOMContentLoaded: init() has called requestLocation
LoadedPage(geolocation) == requestLocation(Document(geolocation))

----------------------------------------------------------------------------
(* The inputs of the model *)

\* request bodies of POST /api/poem
Bodies ==
  { Body(Num(39531), Num(0 - 119810), Str("09:57"), Str("2025-03-01")),
    Body(Str("39.534"), Str("-119.814"), Str("24:00"), Undefined),
    Body(Str("39.534"), Str("-119.814"), Undefined, Str("2025-3-1")),
    Body(Num(0 - 91000), Num(180000), Str("09:57"), Str("2025-03-01")),
    Body(Num(0), Num(0), Str("09:57"), Str("2025-03-01")),
    Body(Num(0), Num(0 - 119810), Str("09:57"), Str("2025-03-01")),
    Body(Num(39531), Num(0), Str("09:57"), Str("2025-03-01")),
    Body(Num(91000), Num(0 - 119810), Str("09:57"), Str("2025-03-01")),
    Body(Num(39531), Num(0 - 181000), Str("09:57"), Str("2025-03-01")),
    Body(Undefined, Num(0 - 119810), Str("09:57"), Str("2025-03-01")),
    Body(Num(39531), Null, Str("09:57"), Str("2025-03-01")),
    Body(Str("north"), Str("-119.81"), Str("09:57"), Str("2025-03-01")) }

\* query strings of GET /api/location: the values are strings, or undefined
\* when the parameter is absent
Queries ==
  { Body(Str("39.53"), Str("-119.81"), Undefined, Undefined),
    Body(Str("0"), Str("0"), Undefined, Undefined),
    Body(Str("-90"), Str("180"), Undefined, Undefined),
    Body(Str("90.001"), Str("-119.81"), Undefined, Undefined),
    Body(Str("39.53"), Str("-180.5"), Undefined, Undefined),
    Body(Undefined, Str("-119.81"), Undefined, Undefined),
    Body(Str("39.53"), Undefined, Undefined, Undefined),
    Body(Str("39.53"), Str(""), Undefined, Undefined),
    Body(Str("north"), Str("east"), Undefined, Undefined) }

\* readings of the server's clock
Clock ==
  { [hours |-> 17, minutes |-> 5, iso |-> "2025-03-02T01:05:00.000Z"] }

Reno == [NoAddress EXCEPT !.city = "Reno", !.state = "Nevada"]

\* answers of the reverse-geocoding service
GeoOutcomes ==
  { GeoOutcome(TRUE, 0, FALSE, NullData),
    GeoOutcome(FALSE, 503, TRUE, NullData),
    GeoOutcome(FALSE, 200, FALSE, NullData),
    GeoOutcome(FALSE, 200, TRUE, [isNull |-> FALSE, hasAddress |-> FALSE, address |-> NoAddress]),
    GeoOutcome(FALSE, 200, TRUE, [isNull |-> FALSE, hasAddress |-> TRUE, address |-> NoAddress]),
    GeoOutcome(FALSE, 200, TRUE, [isNull |-> FALSE, hasAddress |-> TRUE, address |-> Reno]),
    GeoOutcome(FALSE, 200, TRUE, [isNull |-> FALSE, hasAddress |-> TRUE,
                                  address |-> [Reno EXCEPT !.country = "United States"]]) }

\* answers of the generation service to the probe
ProbeOutcomes ==
  { OllamaOutcome(TRUE, 0, FALSE, FALSE, Undefined),
    OllamaOutcome(FALSE, 404, TRUE, FALSE, Undefined),
    OllamaOutcome(FALSE, 200, FALSE, FALSE, Undefined),
    OllamaOutcome(FALSE, 200, TRUE, FALSE, Undefined),
    OllamaOutcome(FALSE, 200, TRUE, FALSE, Str("")),
    OllamaOutcome(FALSE, 200, TRUE, FALSE, Str("Hello there")) }

\* answers of the generation service to the real call
GenOutcomes ==
  { OllamaOutcome(TRUE, 0, FALSE, FALSE, Undefined),
    OllamaOutcome(FALSE, 500, TRUE, FALSE, Undefined),
    OllamaOutcome(FALSE, 200, FALSE, FALSE, Undefined),
    OllamaOutcome(FALSE, 200, TRUE, TRUE, Undefined),
    OllamaOutcome(FALSE, 200, TRUE, FALSE, Undefined),
    OllamaOutcome(FALSE, 200, TRUE, FALSE, Str("")),
    OllamaOutcome(FALSE, 200, TRUE, FALSE, Str("  \n")),
    OllamaOutcome(FALSE, 200, TRUE, FALSE, Num(7)),
    OllamaOutcome(FALSE, 200, TRUE, FALSE, Str(" Dawn over the Truckee\n")),
    OllamaOutcome(FALSE, 200, TRUE, FALSE, Str("Neon and sagebrush")) }

\* values of RATE_LIMIT_MAX_REQUESTS in the environment: a small limit, the
\* limit of the README's .env, and the variable unset
SmallLimit == Str("1")

ReadmeLimit == Str("60")

\* the hours of a day and the months of a year, as the strings the
\* validated requests carry them: HH:MM and YYYY-MM-DD
ContextInputs ==
  { [timeStr |-> Str(padStart2(h) \o ":" \o padStart2(m)),
     dateStr |-> Str("2025-" \o padStart2(mo) \o "-01"),
     hour |-> h, month |-> mo] : h \in 0..23, m \in {0, 57}, mo \in 1..12 }

\* every address whose fields are absent or carry these names
Addresses ==
  { [city |-> c, town |-> t, village |-> v, state |-> s, county |-> k, country |-> n] :
      c \in {"", "Reno"}, t \in {"", "Verdi"}, v \in {"", "Gerlach"},
      s \in {"", "Nevada"}, k \in {"", "Washoe County"}, n \in {"", "United States"} }

\* what getLocationInfo can hand to formatLocationInfo
LocationData ==
  {NullData, [isNull |-> FALSE, hasAddress |-> FALSE, address |-> NoAddress]}
    \cup {[isNull |-> FALSE, hasAddress |-> TRUE, address |-> a] : a \in Addresses}

\* the contexts handed to generateFallbackPoem: null, fields missing, complete
Contexts ==
  { NullContext,
    [isNull |-> FALSE, timeOfDay |-> "", season |-> ""],
    [isNull |-> FALSE, timeOfDay |-> "", season |-> "spring"],
    [isNull |-> FALSE, timeOfDay |-> "morning", season |-> ""],
    [isNull |-> FALSE, timeOfDay |-> "morning", season |-> "spring"],
    [isNull |-> FALSE, timeOfDay |-> "night", season |-> "winter"] }

Places == {"Reno, Nevada", "unknown location", "Coeur d'Alene, Idaho"}

----------------------------------------------------------------------------
(* The state machine *)

\* the state of a server started with RATE_LIMIT_MAX_REQUESTS among limits
\* and CACHE_TTL among ttls
Configured(limits, ttls) ==
  /\ env \in [RATE_LIMIT_MAX_REQUESTS : limits, CACHE_TTL : ttls]
  /\ hits = [c \in Client |-> 0]
  /\ poems = 0
  /\ reqs = EmptyBag
  /\ last = IdleReq
  /\ poemCache = <<>>
  /\ locationNameCache = <<>>
  /\ call = NoCall
  /\ page = LoadedPage(TRUE)

Start(limits) == Configured(limits, {Undefined})

Init == Start({SmallLimit})

\* The limiter counts a request of client c and lets it pass or not.
\* (The count of a client stops MaxExcess requests above the limit.)
limiterCounts(c) ==
  /\ hits[c] < rateLimitMax + MaxExcess
  /\ hits' = [hits EXCEPT ![c] = @ + 1]

limiterPasses(c) == hits[c] + 1 <= rateLimitMax

\* The limiter's window of client c elapses.
windowElapses(c) ==
  /\ Quiet
  /\ hits[c] > 0
  /\ hits' = [hits EXCEPT ![c] = 0]
  /\ UNCHANGED <<env, poems, reqs, last, poemCache, locationNameCache, call, page>>

\* POST /api/poem arrives from client c: the limiter, validatePoemRequest
\* and the handler up to its first await, the fetch of getLocationInfo.
PostPoem(c, input, now) ==
  /\ Accepting
  /\ poems < MaxPoems
  /\ poems' = poems + 1
  /\ limiterCounts(c)
  /\ LET q == NewReq("POST /api/poem", input)
         v == validatePoemRequest(input, now)
     IN  IF ~limiterPasses(c)
         THEN Answer([q EXCEPT !.res = TooManyRequests])
         ELSE IF v.rejected
         THEN Answer([q EXCEPT !.res = BadRequest])
         ELSE /\ Enter([q EXCEPT !.pc = "getLocationInfo", !.body = v.body, !.geoCalls = @ + 1])
              /\ UNCHANGED last
  /\ UNCHANGED <<env, poemCache, locationNameCache, call, page>>

\* POST /api/poem arrives from client c with a body that is not JSON:
\* express.json(), mounted before the limiter, ends the request.
PostUnparsed(c) ==
  /\ Accepting
  /\ poems < MaxPoems
  /\ poems' = poems + 1
  /\ Answer([NewReq("POST /api/poem", NoBody) EXCEPT !.res = UnparsedBody])
  /\ UNCHANGED <<env, hits, poemCache, locationNameCache, call, page>>

\* a lookup that never finds the key
cacheLookupMiss(key) == [hit |-> FALSE, poem |-> ""]

\* a lookup that also finds the key while a request generates a poem for it
cacheLookupSingleFlight(key) ==
  IF key \in DOMAIN poemCache
  THEN [hit |-> TRUE, poem |-> poemCache[key]]
  ELSE IF \E q \in InFlight :
            /\ q.pc = "generatePoem"
            /\ cacheKey(q.locationInfo, q.body.time.s, q.body.date.s) = key
  THEN [hit |-> TRUE, poem |-> ""]
  ELSE [hit |-> FALSE, poem |-> ""]

\* poemCache.has(cacheKey) and poemCache.get(cacheKey)
cacheLookup(key) ==
  IF key \in DOMAIN poemCache
  THEN [hit |-> TRUE, poem |-> poemCache[key]]
  ELSE [hit |-> FALSE, poem |-> ""]

\* a store that keeps the entry the key already has
cacheSetIfAbsent(key, poem) ==
  IF key \in DOMAIN poemCache THEN poemCache
  ELSE [k \in DOMAIN poemCache \cup {key} |-> IF k = key THEN poem ELSE poemCache[k]]

\* a store into a cache that holds one entry
cacheSetEvicting(key, poem) == [k \in {key} |-> poem]

\* poemCache.set(cacheKey, poem)
cacheSet(key, poem) ==
  [k \in DOMAIN poemCache \cup {key} |-> IF k = key THEN poem ELSE poemCache[k]]

\* the cache key of the request with record q
KeyOf(q) == cacheKey(q.locationInfo, q.body.time.s, q.body.date.s)

\* The geocoder's fetch of request q ends with outcome o: the rest of
\* getLocationInfo, formatLocationInfo, and generatePoem up to its first
\* await, the fetch of isOllamaAvailable.
GeocodeReturns(q, o) ==
  /\ Quiet
  /\ q.pc = "getLocationInfo"
  /\ LET locationInfo == formatLocationInfo(getLocationInfo(o))
         q1 == [q EXCEPT !.locationInfo = locationInfo]
     IN  Continue(q,
           [q1 EXCEPT !.pc = "isOllamaAvailable",
                      !.geoFailed = Failed(o, HasAddress(o)),
                      !.cachedAtCall = IF KeyOf(q1) \in DOMAIN poemCache
                                       THEN [hit |-> TRUE, poem |-> poemCache[KeyOf(q1)]]
                                       ELSE [hit |-> FALSE, poem |-> ""],
                      !.probeCalls = @ + 1])
  /\ UNCHANGED <<env, hits, poems, last, poemCache, locationNameCache, call, page>>

\* The probe of request q0 ends with outcome o: the rest of
\* isOllamaAvailable, then generatePoem up to its return or to its next
\* await, the fetch of the real generation call.
ProbeReturns(q0, o) ==
  /\ Quiet
  /\ q0.pc = "isOllamaAvailable"
  /\ LET q == [q0 EXCEPT !.probeFailed = Failed(o, HasResponse(o))]
         cached == cacheLookup(KeyOf(q))
     IN  IF ~isOllamaAvailable(o)
         THEN LET ret == [threw |-> FALSE, v |-> UnavailableMessage]
              IN  Complete(q0, [q EXCEPT !.ret = ret, !.returned = TRUE,
                                         !.res = poemResponse(ret)])
         ELSE IF cached.hit
         THEN LET ret == [threw |-> FALSE, v |-> cached.poem]
              IN  Complete(q0, [q EXCEPT !.ret = ret, !.returned = TRUE,
                                         !.res = poemResponse(ret)])
         ELSE /\ Continue(q0,
                    [q EXCEPT !.pc = "generatePoem",
                              !.prompt = buildPrompt(q.locationInfo, q.body.time.s, q.body.date.s),
                              !.genCalls = @ + 1])
              /\ UNCHANGED last
  /\ UNCHANGED <<env, hits, poems, poemCache, locationNameCache, call, page>>

\* The real generation call of request q0 ends with outcome o: the rest of
\* generatePoem and of the handler.
GenerateReturns(q0, o) ==
  /\ Quiet
  /\ q0.pc = "generatePoem"
  /\ LET q == [q0 EXCEPT !.genFailed = Failed(o, HasResponse(o)),
                         !.raw = IF o.rejects \/ ~Ok(o.status) \/ ~o.parses \/ o.isNull
                                 THEN Undefined ELSE o.response]
         ret == generatePoemResult(o)
     IN  IF ret.threw
         THEN /\ Complete(q0, [q EXCEPT !.ret = ret, !.res = poemResponse(ret)])
              /\ UNCHANGED poemCache
         ELSE /\ poemCache' = cacheSet(KeyOf(q), ret.v)
              /\ Complete(q0, [q EXCEPT !.ret = ret, !.returned = TRUE,
                                        !.cacheWrites = @ + 1,
                                        !.res = poemResponse(ret)])
  /\ UNCHANGED <<env, hits, poems, locationNameCache, call, page>>

\* GET /api/health arrives from client c: the limiter and the handler up to
\* its fetch of the probe.
GetHealth(c) ==
  /\ Accepting
  /\ limiterCounts(c)
  /\ LET q == NewReq("GET /api/health", NoBody)
     IN  IF ~limiterPasses(c)
         THEN Answer([q EXCEPT !.res = TooManyRequests])
         ELSE /\ Enter([q EXCEPT !.pc = "health", !.probeCalls = @ + 1])
              /\ UNCHANGED last
  /\ UNCHANGED <<env, poems, poemCache, locationNameCache, call, page>>

\* The probe of the health request q ends with outcome o.
HealthReturns(q, o) ==
  /\ Quiet
  /\ q.pc = "health"
  /\ LET ollamaAvailable ==
           IF o.rejects \/ ~Ok(o.status) \/ ~o.parses THEN FALSE
           ELSE ~o.isNull /\ Truthy(o.response)
     IN  Complete(q, [q EXCEPT !.probeFailed = Failed(o, HasResponse(o)),
                               !.res = healthResponse(ollamaAvailable)])
  /\ UNCHANGED <<env, hits, poems, poemCache, locationNameCache, call, page>>

\* GET /api/location arrives from client c with the query string query:
\* the limiter and the handler up to its await, the fetch of getLocationInfo.
GetLocation(c, query) ==
  /\ Accepting
  /\ limiterCounts(c)
  /\ LET q == NewReq("GET /api/location", query)
     IN  IF ~limiterPasses(c)
         THEN Answer([q EXCEPT !.res = TooManyRequests])
         ELSE IF ~Truthy(query.latitude) \/ ~Truthy(query.longitude)
                   \/ ~validateCoordinates(query.latitude, query.longitude)
         THEN Answer([q EXCEPT !.res = BadRequest])
         ELSE /\ Enter([q EXCEPT !.pc = "location", !.geoCalls = @ + 1])
              /\ UNCHANGED last
  /\ UNCHANGED <<env, poems, poemCache, locationNameCache, call, page>>

\* The geocoder's fetch of the location request q ends with outcome o: the
\* rest of getLocationInfo, formatLocationInfo and the response.
LocationReturns(q, o) ==
  /\ Quiet
  /\ q.pc = "location"
  /\ LET locationData == getLocationInfo(o)
         locationName == formatLocationInfo(locationData)
     IN  Complete(q, [q EXCEPT !.locationInfo = locationName,
                               !.geoFailed = Failed(o, HasAddress(o)),
                               !.res = locationResponse(locationName)])
  /\ UNCHANGED <<env, hits, poems, poemCache, locationNameCache, call, page>>

\* The response of the last completed request has reached its client.
ResponseSent ==
  /\ ~Quiet
  /\ last' = IdleReq
  /\ UNCHANGED <<env, hits, poems, reqs, poemCache, locationNameCache, call, page>>

Next ==
  \/ \E c \in PoemClient, input \in Bodies, now \in Clock : PostPoem(c, input, now)
  \/ \E c \in PoemClient : PostUnparsed(c)
  \/ \E q \in InFlight, o \in GeoOutcomes : GeocodeReturns(q, o)
  \/ \E q \in InFlight, o \in ProbeOutcomes : ProbeReturns(q, o)
  \/ \E q \in InFlight, o \in GenOutcomes : GenerateReturns(q, o)
  \/ \E c \in PoemClient : windowElapses(c)
  \/ ResponseSent

\* the health route alone, behind the limiter
NextHealth ==
  \/ \E c \in Client : GetHealth(c)
  \/ \E q \in InFlight, o \in ProbeOutcomes : HealthReturns(q, o)
  \/ \E c \in Client : windowElapses(c)
  \/ ResponseSent

\* the location route alone, behind the limiter
NextLocation ==
  \/ \E c \in PoemClient, query \in Queries : GetLocation(c, query)
  \/ \E q \in InFlight, o \in GeoOutcomes : LocationReturns(q, o)
  \/ \E c \in PoemClient : windowElapses(c)
  \/ ResponseSent

Spec == Init /\ [][Next]_vars

\* the poem route when every response the handler has computed is sent:
\* res.json, or res.status(...).json, follows the handler's last await in
\* the same turn of the event loop
SpecResponding == Spec /\ WF_vars(ResponseSent)

SpecLocation == Init /\ [][NextLocation]_vars

\* the limiter under the configurations a deployment starts with
InitLimiter == Start({Undefined, ReadmeLimit})

SpecLimiter == InitLimiter /\ [][NextHealth]_vars

server == <<env, hits, poems, reqs, last, poemCache, locationNameCache>>

\* getContextInfo(timeStr, dateStr) is called
CallGetContextInfo(i) ==
  /\ call = NoCall
  /\ call' = [NoCall EXCEPT !.fn = "getContextInfo",
                            !.timeStr = i.timeStr, !.dateStr = i.dateStr,
                            !.hour = i.hour, !.month = i.month,
                            !.context = getContextInfo(i.timeStr, i.dateStr)]
  /\ UNCHANGED <<server, page>>

\* generateFallbackPoem(time, date, location, contextInfo) is called
CallGenerateFallbackPoem(time, date, location, contextInfo) ==
  /\ call = NoCall
  /\ call' = [NoCall EXCEPT !.fn = "generateFallbackPoem",
                            !.timeStr = Str(time), !.dateStr = Str(date),
                            !.location = location, !.contextInfo = contextInfo,
                            !.text = generateFallbackPoem(time, date, location, contextInfo)]
  /\ UNCHANGED <<server, page>>

\* formatLocationInfo(locationData) is called
CallFormatLocationInfo(locationData) ==
  /\ call = NoCall
  /\ call' = [NoCall EXCEPT !.fn = "formatLocationInfo",
                            !.locationData = locationData,
                            !.text = formatLocationInfo(locationData)]
  /\ UNCHANGED <<server, page>>

\* generatePoem is called with a key that is not cached; its probe ends with
\* outcome po and its real generation call, if issued, with outcome go
CallGeneratePoem(po, go) ==
  /\ call = NoCall
  /\ call' = [NoCall EXCEPT !.fn = "generatePoem", !.probe = po, !.gen = go,
                            !.ret = generatePoemReport(po, [hit |-> FALSE, poem |-> ""], go)]
  /\ UNCHANGED <<server, page>>

\* getContextInfo is called with any two arguments
CallGetContextInfoWith(timeStr, dateStr) ==
  /\ call = NoCall
  /\ call' = [NoCall EXCEPT !.fn = "getContextInfo",
                            !.timeStr = timeStr, !.dateStr = dateStr,
                            !.context = getContextInfo(timeStr, dateStr)]
  /\ UNCHANGED <<server, page>>

\* the caller has taken the result
Returned ==
  /\ call # NoCall
  /\ call' = NoCall
  /\ UNCHANGED <<server, page>>

NextFunctions ==
  \/ \E i \in ContextInputs : CallGetContextInfo(i)
  \/ \E time \in {"09:57", "17:05"}, date \in {"2025-03-01"},
        location \in Places, contextInfo \in Contexts :
          CallGenerateFallbackPoem(time, date, location, contextInfo)
  \/ \E locationData \in LocationData : CallFormatLocationInfo(locationData)
  \/ \E po \in ProbeOutcomes, go \in GenOutcomes : CallGeneratePoem(po, go)
  \/ Returned

\* the functions of the server and of the service that do no I/O
SpecFunctions == Init /\ [][NextFunctions]_vars

\* first arguments of getContextInfo: missing, not a string, without a
\* colon, with components that are not numbers, and HH:MM
TimeArguments ==
  { Undefined, Null, Num(957), Str(""), Str("noon"), Str("09"), Str("09:xx"),
    Str("xx:57"), Str("9h:57"), Str(":"), Str("9:5"), Str("24:00"),
    Str("00:00"), Str("09:57"), Str("12:00"), Str("23:59") }

\* second arguments of getContextInfo, likewise
DateArguments ==
  { Undefined, Null, Str(""), Str("today"), Str("2025-03"), Str("2025-03-xx"),
    Str("2025-xx-01"), Str("2025/03/01"), Str("--"), Str("2025-3-1"),
    Str("2025-03-01"), Str("2024-02-29"), Str("2025-02-31"), Str("2025-12-31") }

NextContext ==
  \/ \E timeStr \in TimeArguments, dateStr \in DateArguments :
        CallGetContextInfoWith(timeStr, dateStr)
  \/ Returned

\* getContextInfo on arguments of every shape
SpecContext == Init /\ [][NextContext]_vars

----------------------------------------------------------------------------
(* The key of the Poem Cache: generatePoem's cacheKey, has, get and set,   *)
(* for places of any content and the times and dates the validation lets   *)
(* through                                                                  *)

\* place strings, some with the key's separator and with whole keys in them
KeyPlaces ==
  { "Reno", "Reno-09:57", "Reno-09:57-2025-03-01",
    "Winston-Salem, North Carolina", "-", "unknown location" }

\* times and dates a request can carry
KeyTimes == {"09:57", "17:05", "00:00", "9:57", "24:00"}

KeyDates ==
  { "2025-03-01", "2025-03-02", "0000-00-00", "2025-3-1",
    "2025-03-01-09:57-2025-03-01" }

\* the text the generation service writes for a place, time and date
PoemFor(location, time, date) ==
  "A poem for <" \o location \o "> at " \o time \o " on " \o date

\* generatePoem stores the poem written for a validated request
StorePoem(location, time, date) ==
  /\ call = NoCall
  /\ Cardinality(DOMAIN poemCache) < MaxStored
  /\ validateTime(Str(time))
  /\ validateDate(Str(date))
  /\ poemCache' = cacheSet(cacheKey(location, time, date), PoemFor(location, time, date))
  /\ UNCHANGED <<env, hits, poems, reqs, last, locationNameCache, call, page>>

\* generatePoem builds the key of a validated request and looks it up
CallCacheKey(location, time, date) ==
  /\ call = NoCall
  /\ validateTime(Str(time))
  /\ validateDate(Str(date))
  /\ LET key == cacheKey(location, time, date)
         cached == cacheLookup(key)
     IN  call' = [NoCall EXCEPT !.fn = "cacheKey", !.location = location,
                               !.timeStr = Str(time), !.dateStr = Str(date),
                               !.text = key,
                               !.ret = [threw |-> FALSE,
                                        v |-> IF cached.hit THEN cached.poem ELSE ""]]
  /\ UNCHANGED <<server, page>>

NextKeys ==
  \/ \E r \in KeyPlaces \X KeyTimes \X KeyDates : StorePoem(r[1], r[2], r[3])
  \/ \E r \in KeyPlaces \X KeyTimes \X KeyDates : CallCacheKey(r[1], r[2], r[3])
  \/ Returned

SpecKeys == Init /\ [][NextKeys]_vars

----------------------------------------------------------------------------
(* getLocationName of services/ollama-service.js and its cache *)

GETLOCATIONNAME == "getLocationName"

\* `${lat.toFixed(2)},${lon.toFixed(2)}`
locationKey(lat, lon) == <<toFixed2(lat), toFixed2(lon)>>

\* the key of the call with record q
LocationKeyOf(q) == locationKey(q.body.latitude.n, q.body.longitude.n)

\* The name getLocationName builds from data.address: the city, town,
\* village or county, followed by the state or else the country; '' when
\* the address has none of the four or is absent.
locationNameOfAddress(data) ==
  IF ~data.hasAddress THEN ""
  ELSE LET address == data.address
           primary == OrElse(address.city, OrElse(address.town,
                        OrElse(address.village, address.county)))
       IN  IF address.state # "" /\ primary # "" THEN primary \o ", " \o address.state
           ELSE IF address.country # "" /\ primary # ""
           THEN primary \o ", " \o address.country
           ELSE primary

\* The part of getLocationName after its fetch: the catch block is entered
\* (threw) or locationName is built.
locationNameOf(o) ==
  IF o.rejects \/ ~Ok(o.status) \/ ~o.parses \/ o.data.isNull
  THEN [threw |-> TRUE, locationName |-> ""]
  ELSE [threw |-> FALSE, locationName |-> locationNameOfAddress(o.data)]

\* a store of whatever name was built
locationNameCacheSetAlways(key, locationName) ==
  [k \in DOMAIN locationNameCache \cup {key} |->
     IF k = key THEN Str(locationName) ELSE locationNameCache[k]]

\* if (locationName) locationNameCache.set(cacheKey, locationName)
locationNameCacheSet(key, locationName) ==
  IF locationName # ""
  THEN [k \in DOMAIN locationNameCache \cup {key} |->
          IF k = key THEN Str(locationName) ELSE locationNameCache[k]]
  ELSE locationNameCache

\* coordinates getLocationName is called with; the first two print the same
\* with two decimals
ResolverCoordinates ==
  { [lat |-> 39531, lon |-> 0 - 119810],
    [lat |-> 39534, lon |-> 0 - 119814],
    [lat |-> 40760, lon |-> 0 - 111891] }

\* answers of the reverse-geocoding service to getLocationName
ResolverOutcomes ==
  GeoOutcomes \cup
    { GeoOutcome(FALSE, 200, TRUE, NullData),
      GeoOutcome(FALSE, 200, TRUE, [isNull |-> FALSE, hasAddress |-> TRUE,
                                    address |-> [NoAddress EXCEPT !.state = "Nevada",
                                                                  !.country = "United States"]]),
      GeoOutcome(FALSE, 200, TRUE, [isNull |-> FALSE, hasAddress |-> TRUE,
                                    address |-> [NoAddress EXCEPT !.county = "Washoe County",
                                                                  !.country = "United States"]]) }

\* getLocationName(lat, lon) is called: it returns the cached name, or goes
\* on to its await, the fetch of the geocoder.
CallGetLocationName(lat, lon) ==
  /\ BagCardinality(reqs) < NumReq
  /\ LET key == locationKey(lat, lon)
         q0  == NewReq(GETLOCATIONNAME, Body(Num(lat), Num(lon), Undefined, Undefined))
         q   == [q0 EXCEPT !.retry = /\ last.pc = "done"
                                     /\ last.route = GETLOCATIONNAME
                                     /\ LocationKeyOf(last) = key
                                     /\ last.name = Null,
                           !.cachedAtCall = [hit |-> key \in DOMAIN locationNameCache,
                                             poem |-> ""]]
     IN  IF key \in DOMAIN locationNameCache
         THEN Answer([q EXCEPT !.name = locationNameCache[key]])
         ELSE /\ Enter([q EXCEPT !.pc = GETLOCATIONNAME, !.geoCalls = @ + 1])
              /\ UNCHANGED last
  /\ UNCHANGED <<env, hits, poems, poemCache, locationNameCache, call, page>>

\* The fetch of the call q ends with outcome o: the rest of getLocationName.
LocationNameReturns(q, o) ==
  /\ q.pc = GETLOCATIONNAME
  /\ LET r == locationNameOf(o)
     IN  IF r.threw
         THEN /\ Complete(q, [q EXCEPT !.geoFailed = TRUE, !.name = Null])
              /\ UNCHANGED locationNameCache
         ELSE /\ locationNameCache' = locationNameCacheSet(LocationKeyOf(q), r.locationName)
              /\ Complete(q, [q EXCEPT !.geoFailed = Failed(o, HasAddress(o)),
                                        !.cacheWrites = IF r.locationName # "" THEN @ + 1 ELSE @,
                                        !.name = IF r.locationName # ""
                                                 THEN Str(r.locationName) ELSE Null])
  /\ UNCHANGED <<env, hits, poems, poemCache, call, page>>

NextResolver ==
  \/ \E c \in ResolverCoordinates : CallGetLocationName(c.lat, c.lon)
  \/ \E q \in InFlight, o \in ResolverOutcomes : LocationNameReturns(q, o)

\* getLocationName, called concurrently
SpecResolver == Init /\ [][NextResolver]_vars

----------------------------------------------------------------------------
(* The two caches of the service over time: poem requests and calls of     *)
(* getLocationName, interleaved, under several values of CACHE_TTL         *)

\* values of CACHE_TTL in the environment: unset, none, one minute
Ttls == {Undefined, Str("0"), Str("60000")}

\* two requests whose cache keys differ (the second gets the clock's time)
CacheBodies ==
  { Body(Num(39531), Num(0 - 119810), Str("09:57"), Str("2025-03-01")),
    Body(Num(39531), Num(0 - 119810), Undefined, Str("2025-03-01")) }

CacheGeoOutcomes ==
  { GeoOutcome(FALSE, 200, TRUE, [isNull |-> FALSE, hasAddress |-> TRUE, address |-> Reno]) }

CacheProbeOutcomes ==
  { OllamaOutcome(TRUE, 0, FALSE, FALSE, Undefined),
    OllamaOutcome(FALSE, 200, TRUE, FALSE, Str("Hello there")) }

CacheGenOutcomes ==
  { OllamaOutcome(FALSE, 500, TRUE, FALSE, Undefined),
    OllamaOutcome(FALSE, 200, TRUE, FALSE, Str("Neon and sagebrush")) }

CacheCoordinates ==
  { [lat |-> 39531, lon |-> 0 - 119810], [lat |-> 40760, lon |-> 0 - 111891] }

InitCaches == Configured({SmallLimit}, Ttls)

NextCaches ==
  \/ \E c \in PoemClient, input \in CacheBodies, now \in Clock : PostPoem(c, input, now)
  \/ \E q \in InFlight, o \in CacheGeoOutcomes : GeocodeReturns(q, o)
  \/ \E q \in InFlight, o \in CacheProbeOutcomes : ProbeReturns(q, o)
  \/ \E q \in InFlight, o \in CacheGenOutcomes : GenerateReturns(q, o)
  \/ \E c \in PoemClient : windowElapses(c)
  \/ ResponseSent
  \/ \E c \in CacheCoordinates : CallGetLocationName(c.lat, c.lon)
  \/ \E q \in InFlight, o \in CacheGeoOutcomes \cup {GeoOutcome(TRUE, 0, FALSE, NullData)} :
        LocationNameReturns(q, o)

SpecCaches == InitCaches /\ [][NextCaches]_vars

----------------------------------------------------------------------------
(* The poem route seen from its validation: every request body, with one   *)
(* answer of the geocoder and two of each call of the generation service   *)

NextValidation ==
  \/ \E c \in PoemClient, input \in Bodies, now \in Clock : PostPoem(c, input, now)
  \/ \E c \in PoemClient : PostUnparsed(c)
  \/ \E q \in InFlight, o \in CacheGeoOutcomes : GeocodeReturns(q, o)
  \/ \E q \in InFlight, o \in CacheProbeOutcomes : ProbeReturns(q, o)
  \/ \E q \in InFlight, o \in CacheGenOutcomes : GenerateReturns(q, o)
  \/ \E c \in PoemClient : windowElapses(c)
  \/ ResponseSent

SpecValidation == Init /\ [][NextValidation]_vars

----------------------------------------------------------------------------
(* The poem route when every upstream call returns or fails and every      *)
(* computed response is sent: every answer of the generation service, two  *)
(* of the geocoder, an accepted and a rejected body                        *)

AnsweringBodies ==
  { Body(Num(39531), Num(0 - 119810), Str("09:57"), Str("2025-03-01")),
    Body(Num(91000), Num(0 - 119810), Str("09:57"), Str("2025-03-01")) }

AnsweringGeoOutcomes ==
  { GeoOutcome(TRUE, 0, FALSE, NullData) } \cup CacheGeoOutcomes

GeocoderSettles == \E q \in InFlight, o \in AnsweringGeoOutcomes : GeocodeReturns(q, o)

ProbeSettles == \E q \in InFlight, o \in ProbeOutcomes : ProbeReturns(q, o)

GenerationSettles == \E q \in InFlight, o \in GenOutcomes : GenerateReturns(q, o)

NextAnswering ==
  \/ \E c \in PoemClient, input \in AnsweringBodies, now \in Clock : PostPoem(c, input, now)
  \/ \E c \in PoemClient : PostUnparsed(c)
  \/ GeocoderSettles
  \/ ProbeSettles
  \/ GenerationSettles
  \/ \E c \in PoemClient : windowElapses(c)
  \/ ResponseSent

SpecAnswering ==
  /\ Init
  /\ [][NextAnswering]_vars
  /\ WF_vars(GeocoderSettles)
  /\ WF_vars(ProbeSettles)
  /\ WF_vars(GenerationSettles)
  /\ WF_vars(ResponseSent)

----------------------------------------------------------------------------
(* The page's state machine *)

\* positions the browser reports
Positions == {Position(39531, 0 - 119810)}

\* the codes of a GeolocationPositionError
PositionErrorCodes == {1, 3}

\* An answer to the page's fetch of POST /api/poem: the fetch rejects, or a
\* response with a status and a body that parses as JSON or not; the parsed
\* body is an object (with a poem field, an error field or neither; "" is
\* an absent field), a string or null.
PoemAnswer(rejects, status, parses, json, poem, error) ==
  [rejects |-> rejects, status |-> status, parses |-> parses,
   json |-> json, poem |-> poem, error |-> error]

PoemAnswers ==
  { PoemAnswer(TRUE, 0, FALSE, "null", "", ""),
    PoemAnswer(FALSE, 500, TRUE, "object", "", "Failed to generate poem"),
    PoemAnswer(FALSE, 429, FALSE, "null", "", ""),
    PoemAnswer(FALSE, 200, FALSE, "null", "", ""),
    PoemAnswer(FALSE, 200, TRUE, "null", "", ""),
    PoemAnswer(FALSE, 200, TRUE, "object", "", ""),
    PoemAnswer(FALSE, 200, TRUE, "object", "", "Failed to generate poem"),
    PoemAnswer(FALSE, 200, TRUE, "string", "Neon and sagebrush", ""),
    PoemAnswer(FALSE, 200, TRUE, "object", "Neon and sagebrush", ""),
    PoemAnswer(FALSE, 200, TRUE, "object",
               "\"Truckee Dawn\"\n\nLight on the river,\ncold and slow.", ""),
    PoemAnswer(FALSE, 200, TRUE, "object", UnavailableMessage, "") }

InitPage ==
  /\ env \in [RATE_LIMIT_MAX_REQUESTS : {SmallLimit}, CACHE_TTL : {Undefined}]
  /\ hits = [c \in Client |-> 0]
  /\ poems = 0
  /\ reqs = EmptyBag
  /\ last = IdleReq
  /\ poemCache = <<>>
  /\ locationNameCache = <<>>
  /\ call = NoCall
  /\ page \in {LoadedPage(TRUE), LoadedPage(FALSE)}

\* the message the error callback of getCurrentPosition shows
positionErrorMessage(code) ==
  CASE code = 1 -> "Location access denied. Please allow location access to generate poems based on your location."
    [] code = 2 -> "Location information is unavailable."
    [] code = 3 -> "The request to get location timed out."
    [] OTHER -> "Location access denied"

\* A click on the refresh-location button.
ClickRefreshLocation ==
  /\ page.locating < MaxLocating
  /\ page' = requestLocation(page)
  /\ UNCHANGED <<server, call>>

\* The success callback of getCurrentPosition, with position pos.
PositionArrives(pos) ==
  /\ page.locating > 0
  /\ page.fetching < MaxFetching
  /\ page.nextTimer < 2 + 2 * MaxLocations
  /\ LET p1 == [page EXCEPT !.locating = @ - 1,
                            !.userLocation = pos,
                            !.locationDisplay = toFixed4(pos.latitude) \o ", "
                                                  \o toFixed4(pos.longitude)]
         p2 == generatePoem(p1)
         p3 == setupRefreshInterval(p2)
     IN  page' = [p3 EXCEPT !.sincePoem = 0]
  /\ UNCHANGED <<server, call>>

\* The error callback of getCurrentPosition, with the error's code.
PositionFails(code) ==
  /\ page.locating > 0
  /\ LET p1 == [page EXCEPT !.locating = @ - 1,
                            !.locationDisplay = "Location unavailable"]
     IN  page' = showError(p1, positionErrorMessage(code))
  /\ UNCHANGED <<server, call>>

\* A click on the retry button, which the error panel shows.
ClickRetry ==
  /\ ~page.errorHidden
  /\ page.userLocation.set => page.fetching < MaxFetching
  /\ page' = generatePoem(page)
  /\ UNCHANGED <<server, call>>

\* the callbacks of the timers in due, oldest timer first
RECURSIVE fire(_, _)
fire(p, due) ==
  IF due = {} THEN p
  ELSE LET t == CHOOSE x \in due : \A y \in due : x.id <= y.id
       IN  fire(IF t.fn = "generatePoem" THEN generatePoem(p) ELSE countdownTick(p),
                due \ {t})

\* A second passes: every interval timer that is due fires and starts over.
Tick ==
  /\ page.timers # {}
  /\ LET due == {t \in page.timers : t.left = 1}
         refreshDue == \E t \in due : t.fn = "generatePoem"
         p1 == [page EXCEPT !.timers = {[t EXCEPT !.left = IF t.left = 1 THEN t.period
                                                          ELSE t.left - 1] :
                                          t \in page.timers},
                            !.sincePoem = IF @ < 0 \/ @ > 60 THEN @ ELSE @ + 1]
         p2 == fire(p1, due)
         fetched == p2.fetching > p1.fetching
     IN  /\ refreshDue => page.fetching + Cardinality({t \in due : t.fn = "generatePoem"})
                            <= MaxFetching
         /\ page' = [p2 EXCEPT !.sincePoem = IF fetched THEN 0 ELSE p2.sincePoem]
  /\ UNCHANGED <<server, call>>

\* The fetch of a poem request ends with answer a: the rest of generatePoem.
FetchReturns(a) ==
  /\ page.fetching > 0
  /\ LET p1 == [page EXCEPT !.fetching = @ - 1]
         failed == showError(p1, "Failed to generate poem. Please try again later.")
         p2 == IF a.rejects \/ ~Ok(a.status) \/ ~a.parses THEN failed
               ELSE IF a.json = "object"
               THEN IF a.poem # "" THEN displayPoem(p1, a.poem)
                    ELSE IF a.error # "" THEN showError(p1, a.error)
                    ELSE failed
               ELSE IF a.json = "string" THEN displayPoem(p1, a.poem)
               ELSE failed
     IN  page' = p2
  /\ UNCHANGED <<server, call>>

NextPage ==
  \/ ClickRefreshLocation
  \/ \E pos \in Positions : PositionArrives(pos)
  \/ \E code \in PositionErrorCodes : PositionFails(code)
  \/ ClickRetry
  \/ Tick
  \/ \E a \in PoemAnswers : FetchReturns(a)

\* the page in a browser
SpecPage == InitPage /\ [][NextPage]_vars

\* A click on the refresh-location button while a position is awaited.
ClickRefreshLocationAgain ==
  /\ page.locating > 0
  /\ page.locating < MaxPending
  /\ page' = requestLocation(page)
  /\ UNCHANGED <<server, call>>

\* answers to the page's fetch: a failure, an error in a 200 response, a
\* poem and the unavailability message
TimerAnswers ==
  { PoemAnswer(FALSE, 500, TRUE, "object", "", "Failed to generate poem"),
    PoemAnswer(FALSE, 200, TRUE, "object", "", "Failed to generate poem"),
    PoemAnswer(FALSE, 200, TRUE, "object", "Neon and sagebrush", ""),
    PoemAnswer(FALSE, 200, TRUE, "object", UnavailableMessage, "") }

\* the page's locations and timers, with overlapping acquisitions
NextTimers ==
  \/ ClickRefreshLocation
  \/ ClickRefreshLocationAgain
  \/ \E pos \in Positions : PositionArrives(pos)
  \/ \E code \in PositionErrorCodes : PositionFails(code)
  \/ ClickRetry
  \/ Tick
  \/ \E a \in TimerAnswers : FetchReturns(a)

SpecTimers == InitPage /\ [][NextTimers]_vars

----------------------------------------------------------------------------
(* Properties *)

POST == "POST /api/poem"

\* the requests in flight and the one whose response is being sent
Records == InFlight \cup {last}

Answered == last.pc = "done" /\ last.route = POST

\* the non-empty texts the generation service can produce, trimmed
GeneratedTexts ==
  {trim(o.response.s) : o \in {g \in GenOutcomes : g.response.t = "string"}} \ {""}

\* the Fallback Composer's poem for the request with record q
FallbackOf(q) ==
  generateFallbackPoem(q.body.time.s, q.body.date.s, q.locationInfo,
                       getContextInfo(q.body.time, q.body.date))

\* C1: a poem request with valid coordinates whose probe or generation call
\* failed (service unreachable, error status, unparseable JSON, empty
\* generated field) is answered 200 with a generated or a fallback poem.
C1_UpstreamFailureAbsorbed ==
  (Answered /\ (last.probeFailed \/ last.genFailed))
    => /\ last.res.status = 200
       /\ last.res.kind = "poem"
       /\ last.res.poem \in GeneratedTexts \cup {FallbackOf(last)}

\* C2: when the probe of a poem request fails, the text sent to the client
\* is the Fallback Composer's output for the request's time, date, place
\* and context, and so contains the place and the date.
C2_ProbeFailureGivesFallback ==
  (Answered /\ last.probeFailed)
    => /\ last.res.status = 200
       /\ last.res.poem = FallbackOf(last)
       /\ includes(last.res.poem, last.locationInfo)
       /\ includes(last.res.poem, last.body.date.s)

\* C3: a poem request whose probe failed (network error, non-OK status, no
\* non-empty response field) never issues the real generation call.
C3_NoGenerationAfterFailedProbe ==
  \A q \in Records :
    (q.route = POST /\ q.probeFailed)
      => q.genCalls = 0 /\ q.prompt = "" /\ q.pc # "generatePoem"

C3_Witness == Answered /\ last.probeFailed /\ last.probeCalls = 1

\* a request that missed the cache for key k awaits its generation call
InFlightMiss(k) ==
  \E q \in InFlight : q.pc = "generatePoem" /\ KeyOf(q) = k

\* C4 as stated: a generatePoem call made when a poem is cached for its key
\* returns that text and issues no real generation call.
C4_CachedTextAlwaysReturned ==
  (Answered /\ last.cachedAtCall.hit)
    => /\ last.returned
       /\ last.ret.v = last.cachedAtCall.poem
       /\ last.genCalls = 0

\* C4 as amended: once a poem is cached for a key and no request that missed
\* the key still awaits its generation call, the cached text never changes
\* and no such request appears; a generatePoem call for the key whose probe
\* ends after a successful probe returns the cached text, without a real
\* generation call.
C4_SettledEntryIsServed ==
  [][\A k \in DOMAIN poemCache :
       ~InFlightMiss(k)
         => /\ k \in DOMAIN poemCache'
            /\ poemCache'[k] = poemCache[k]
            /\ ~InFlightMiss(k)'
            /\ (/\ Quiet
                /\ last'.pc = "done"
                /\ last'.route = POST
                /\ last'.probeCalls = 1
                /\ ~last'.probeFailed
                /\ KeyOf(last') = k)
                 => /\ last'.returned
                    /\ last'.ret.v = poemCache[k]
                    /\ last'.genCalls = 0]_vars

C4_Witness ==
  /\ Answered
  /\ last.cachedAtCall.hit
  /\ ~last.probeFailed
  /\ last.returned
  /\ last.ret.v = last.cachedAtCall.poem
  /\ last.genCalls = 0

\* a coordinate is absent from the body
Missing(v) == v.t \in {"undefined", "null"}

\* a coordinate is a number (or the text of one) within lo..hi degrees
Within(v, lo, hi) ==
  LET p == parseFloat(v)
  IN  ~p.nan /\ p.v >= Degrees(lo) /\ p.v <= Degrees(hi)

\* a coordinate is a number (or the text of one) outside lo..hi degrees
Outside(v, lo, hi) ==
  LET p == parseFloat(v)
  IN  ~p.nan /\ (p.v < Degrees(lo) \/ p.v > Degrees(hi))

\* C5: a poem request with latitude in [-90, 90] and longitude in
\* [-180, 180], zero included, is never answered 400.
C5_InRangeNeverRejected ==
  (Answered /\ Within(last.body.latitude, 0 - 90, 90)
            /\ Within(last.body.longitude, 0 - 180, 180))
    => last.res.status # 400

BadCoordinates(b) ==
  \/ Missing(b.latitude) \/ Outside(b.latitude, 0 - 90, 90)
  \/ Missing(b.longitude) \/ Outside(b.longitude, 0 - 180, 180)

\* C6: a poem request (let through by the limiter) whose latitude or
\* longitude is missing or out of range is answered 400 with an error
\* payload, without a geocoding, probe or generation call or a cache write;
\* no such request is ever in flight.
C6_BadCoordinatesRejected ==
  /\ (Answered /\ last.res.status # 429 /\ BadCoordinates(last.body))
       => /\ last.res.status = 400
          /\ last.res.kind \in {"error", "html"}
          /\ last.res.error # ""
          /\ last.geoCalls = 0
          /\ last.probeCalls = 0
          /\ last.genCalls = 0
          /\ last.cacheWrites = 0
  /\ \A q \in InFlight : q.route = POST => ~BadCoordinates(q.body)

C6_Witness ==
  /\ Answered
  /\ last.res.status = 400
  /\ Outside(last.body.latitude, 0 - 90, 90) \/ Outside(last.body.longitude, 0 - 180, 180)

\* C7: with RATE_LIMIT_MAX_REQUESTS unset, the 61st request of a client in
\* one window is answered 429.
C7_SixtyFirstRequestRefused ==
  [][\A c \in Client :
       (env.RATE_LIMIT_MAX_REQUESTS = Undefined /\ hits[c] = 60 /\ hits'[c] = 61)
         => last'.pc = "done" /\ last'.res.status = 429]_vars

\* C8: after a failed location resolution (network error, non-OK status,
\* missing or empty address) the request goes on to generatePoem with the
\* place "unknown location".
C8_FailedResolutionContinues ==
  \A q \in Records :
    (q.route = POST /\ q.geoFailed)
      => /\ q.locationInfo = "unknown location"
         /\ q.probeCalls = 1
         /\ q.pc \in {"isOllamaAvailable", "generatePoem", "done"}
         /\ q.pc = "generatePoem" =>
              q.prompt = buildPrompt("unknown location", q.body.time.s, q.body.date.s)
         /\ q.pc = "done" => q.res.status \notin {400, 429}

C8_Witness ==
  \E q \in InFlight :
    /\ q.geoFailed
    /\ q.pc = "generatePoem"
    /\ includes(q.prompt, "unknown location")

\* the coordinates of two bodies print the same with two decimals
SameRounded(b1, b2) ==
  /\ toFixed2(parseFloat(b1.latitude).v) = toFixed2(parseFloat(b2.latitude).v)
  /\ toFixed2(parseFloat(b1.longitude).v) = toFixed2(parseFloat(b2.longitude).v)

\* C9: a request that arrives after another request with the same rounded
\* coordinates has resolved a place name issues no geocoding call.
C9_SecondResolutionFromCache ==
  [][\A q1 \in InFlight, q2 \in InFlight' :
       (/\ q1.route = POST
        /\ q1.pc \in {"isOllamaAvailable", "generatePoem"}
        /\ ~q1.geoFailed
        /\ q1.locationInfo # "unknown location"
        /\ poems' = poems + 1
        /\ CopiesIn(q2, reqs') > CopiesIn(q2, reqs)
        /\ SameRounded(q1.body, q2.body))
         => q2.geoCalls = 0]_vars

\* C10: generatePoem never returns an empty poem: it returns a non-empty
\* trimmed text or throws.
C10_NeverEmptyPoem ==
  (Answered /\ last.returned) => last.ret.v # "" /\ last.ret.v = trim(last.ret.v)

\* a 24h HH:MM string
WellFormedTime(v) ==
  /\ v.t = "string"
  /\ Len(v.s) = 5
  /\ \A i \in {1, 2, 4, 5} : Char(v.s, i) \in Digit
  /\ Char(v.s, 3) = ":"
  /\ DigitsValue(SubSeq(v.s, 1, 2)) <= 23
  /\ DigitsValue(SubSeq(v.s, 4, 5)) <= 59

\* a YYYY-MM-DD string
WellFormedDate(v) ==
  /\ v.t = "string"
  /\ Len(v.s) = 10
  /\ \A i \in {1, 2, 3, 4, 6, 7, 9, 10} : Char(v.s, i) \in Digit
  /\ Char(v.s, 5) = "-" /\ Char(v.s, 8) = "-"

\* the body a handler runs with comes from the received body b at clock
\* reading now: its coordinates, and its time and date or the clock's
DefaultedFrom(body, b, now) ==
  /\ body.latitude = b.latitude
  /\ body.longitude = b.longitude
  /\ body.time = IF WellFormedTime(b.time) THEN b.time
                 ELSE Str(padStart2(now.hours) \o ":" \o padStart2(now.minutes))
  /\ body.date = IF WellFormedDate(b.date) THEN b.date
                 ELSE Str(SubSeq(now.iso, 1, 10))

\* C11: a poem request is rejected for its coordinates only, never for a
\* missing or malformed time or date; the handler runs with a well-formed
\* HH:MM time and YYYY-MM-DD date, those received or else the server
\* clock's, and with the coordinates received.
C11_TimeAndDateDefaulted ==
  /\ (Answered /\ last.res.status = 400)
       => \/ ~Truthy(last.body.latitude) \/ ~Truthy(last.body.longitude)
          \/ ~Within(last.body.latitude, 0 - 90, 90)
          \/ ~Within(last.body.longitude, 0 - 180, 180)
  /\ (Answered /\ last.res.status \notin {400, 429})
       => /\ WellFormedTime(last.body.time)
          /\ WellFormedDate(last.body.date)
          /\ \E b \in Bodies, now \in Clock : DefaultedFrom(last.body, b, now)

C11_Witness ==
  /\ Answered
  /\ last.res.status = 200
  /\ last.body.latitude = Str("39.534")
  /\ last.body.time = Str("17:05")
  /\ last.body.date = Str("2025-03-02")

\* C12: generateFallbackPoem returns a non-empty text that contains the
\* place and the date for every time, date, place and context; with a null
\* context or a context without timeOfDay the text has the word moment in
\* the place of the time of day, and with a null context or a context
\* without season it has the word season in the place of the season.
C12_FallbackComposerTotal ==
  call.fn = "generateFallbackPoem"
    => /\ call.text # ""
       /\ includes(call.text, call.location)
       /\ includes(call.text, call.dateStr.s)
       /\ (call.contextInfo.isNull \/ call.contextInfo.timeOfDay = "")
            => /\ includes(call.text, "\"A moment in " \o call.location \o "\"")
               /\ includes(call.text, "In this moment hour, at " \o call.timeStr.s)
       /\ (call.contextInfo.isNull \/ call.contextInfo.season = "")
            => includes(call.text, "The world unfolds in season's prime.")

C12_Witness ==
  /\ call.fn = "generateFallbackPoem"
  /\ call.contextInfo.isNull
  /\ call.location = "Reno, Nevada"
  /\ includes(call.text, "A moment in Reno, Nevada")
  /\ includes(call.text, "season's prime")
  /\ includes(call.text, "As 2025-03-01's story")

\* C16: for the time HH:MM of every hour 0..23 getContextInfo returns
\* timeOfDay morning for the hours 5..11, afternoon for 12..16, evening for
\* 17..20 and night for 21..23 and 0..4.
C16_TimeOfDayBuckets ==
  call.fn = "getContextInfo"
    => /\ ~call.context.isNull
       /\ call.context.timeOfDay =
            (IF call.hour \in 5..11 THEN "morning"
             ELSE IF call.hour \in 12..16 THEN "afternoon"
             ELSE IF call.hour \in 17..20 THEN "evening"
             ELSE "night")

C16_Witness ==
  /\ call.fn = "getContextInfo"
  /\ call.timeStr = Str("12:00")
  /\ call.hour = 12
  /\ call.context.timeOfDay = "afternoon"

\* C17: for the date of every month 1..12 getContextInfo returns season
\* spring for the months 3..5, summer for 6..8, autumn for 9..11 and winter
\* for 12, 1 and 2; the date 2025-03-01 gives spring.
C17_SeasonByMonth ==
  call.fn = "getContextInfo"
    => /\ ~call.context.isNull
       /\ call.context.season =
            (IF call.month \in 3..5 THEN "spring"
             ELSE IF call.month \in 6..8 THEN "summer"
             ELSE IF call.month \in 9..11 THEN "autumn"
             ELSE "winter")
       /\ call.dateStr = Str("2025-03-01") => call.context.season = "spring"

C17_Witness ==
  /\ call.fn = "getContextInfo"
  /\ call.dateStr = Str("2025-03-01")
  /\ call.month = 3
  /\ call.context.season = "spring"

\* the first present of city, town, village and county
PrimaryName(address) ==
  OrElse(address.city, OrElse(address.town, OrElse(address.village, address.county)))

\* ", " and the state if present, otherwise the country if present
RegionSuffix(address) ==
  IF address.state # "" THEN ", " \o address.state
  ELSE IF address.country # "" THEN ", " \o address.country
  ELSE ""

\* C15: the place string of an address with a primary name (the first
\* present of city, town, village, county) is that name followed by ", "
\* and the state if present, otherwise the country; {city: Reno, state:
\* Nevada}, with or without a country, gives exactly "Reno, Nevada".
C15_PlaceFromAddress ==
  (/\ call.fn = "formatLocationInfo"
   /\ ~call.locationData.isNull
   /\ call.locationData.hasAddress
   /\ PrimaryName(call.locationData.address) # "")
    => /\ call.text = PrimaryName(call.locationData.address)
                        \o RegionSuffix(call.locationData.address)
       /\ (/\ call.locationData.address.city = "Reno"
           /\ call.locationData.address.state = "Nevada")
            => call.text = "Reno, Nevada"

HEALTH == "GET /api/health"

\* C13: a health request (let through by the limiter) is answered 200 with
\* status "ok" after one probe, whatever the probe's outcome; the ollama
\* field is "available" when the probe got an OK status and a non-empty
\* response field, and "unavailable" after a network error, a non-OK
\* status, a body that is not JSON or a missing or empty response field.
C13_HealthAlwaysOk ==
  (last.pc = "done" /\ last.route = HEALTH /\ last.res.status # 429)
    => /\ last.res.status = 200
       /\ last.res.kind = "health"
       /\ last.res.state = "ok"
       /\ last.probeCalls = 1
       /\ last.res.ollama = IF last.probeFailed THEN "unavailable" ELSE "available"

C13_Witness ==
  /\ last.pc = "done"
  /\ last.route = HEALTH
  /\ last.probeFailed
  /\ last.res.status = 200
  /\ last.res.ollama = "unavailable"

LOCATION == "GET /api/location"

\* C14: a location request (let through by the limiter) with coordinates
\* in range is answered 200 with a locationName after one geocoding call,
\* whatever the call's outcome: a place string, or "unknown location" when
\* the call failed; with a coordinate missing or out of range it is
\* answered 400 without a geocoding call; it is never answered 500.
C14_LocationNeverFails ==
  (last.pc = "done" /\ last.route = LOCATION /\ last.res.status # 429)
    => /\ last.res.status # 500
       /\ (/\ Within(last.body.latitude, 0 - 90, 90)
           /\ Within(last.body.longitude, 0 - 180, 180))
            => /\ last.res.status = 200
               /\ last.res.kind = "location"
               /\ last.geoCalls = 1
               /\ last.res.locationName # ""
               /\ last.geoFailed => last.res.locationName = "unknown location"
       /\ BadCoordinates(last.body)
            => /\ last.res.status = 400
               /\ last.res.kind = "error"
               /\ last.geoCalls = 0

C14_Witness ==
  /\ last.pc = "done"
  /\ last.route = LOCATION
  /\ last.body.latitude = Str("0")
  /\ last.geoFailed
  /\ last.res.status = 200
  /\ last.res.locationName = "unknown location"

\* C18: the prompt of a real generation call is "Write a poem about {place}
\* at {time} on {date}. The poem should be evocative and reflect the mood
\* of the time and place." with the request's place, time and date, and a
\* 200 answer after that call carries the response field the call
\* received, with the white space around it removed.
C18_PromptAndTrimmedText ==
  (Answered /\ last.genCalls = 1)
    => /\ last.prompt = "Write a poem about " \o last.locationInfo
                          \o " at " \o last.body.time.s
                          \o " on " \o last.body.date.s
                          \o ". The poem should be evocative and reflect the mood of the time and place."
       /\ last.res.status = 200
            => /\ last.raw.t = "string"
               /\ last.res.kind = "poem"
               /\ last.res.poem = trim(last.raw.s)
               /\ last.res.poem # last.raw.s => Len(last.res.poem) < Len(last.raw.s)

C18_Witness ==
  /\ Answered
  /\ last.genCalls = 1
  /\ last.res.status = 200
  /\ last.raw = Str(" Dawn over the Truckee\n")
  /\ last.res.poem = "Dawn over the Truckee"
  /\ includes(last.prompt, "Reno, Nevada at 09:57 on 2025-03-01")

RefreshTimers(p) == {t \in p.timers : t.fn = "generatePoem"}

\* C19: when the page obtains a location it sends a poem request in the
\* same step; from then on exactly one refresh timer runs, due 60 seconds
\* after the last request of the cycle, so that a passing second sends a
\* request exactly when 60 seconds have passed since that request;
\* obtaining a location again starts the 60 seconds afresh.
C19_RefreshCycle ==
  [][/\ page'.nextTimer > page.nextTimer
          => /\ page'.userLocation.set
             /\ page'.fetching = page.fetching + 1
             /\ page'.sincePoem = 0
     /\ page'.userLocation.set
          => /\ Cardinality(RefreshTimers(page')) = 1
             /\ \A t \in RefreshTimers(page') :
                  t.period = 60 /\ t.left = 60 - page'.sincePoem
     /\ (page'.timers # page.timers /\ page'.nextTimer = page.nextTimer)
          => IF page.sincePoem = 59
             THEN page'.fetching = page.fetching + 1 /\ page'.sincePoem = 0
             ELSE page'.fetching = page.fetching
                    /\ page'.sincePoem = page.sincePoem + 1]_vars

C19_Witness ==
  /\ page.userLocation.set
  /\ page.nextTimer = 6
  /\ page.sincePoem = 0
  /\ page.countdownText = 0
  /\ page.fetching = 1
  /\ ~page.loadingHidden

\* the request with record q has just started to await its generation call
StartsGeneration(q) ==
  q.pc = "generatePoem" /\ CopiesIn(q, reqs') > CopiesIn(q, reqs)

\* C21: nothing but the content of the Poem Cache at the lookup decides
\* whether a request generates.  A request starts its real generation call
\* whenever its probe succeeded and its key is not cached, other requests
\* being in flight for the same key or not; a request that ends without a
\* generation call failed its probe or was served the cached text; the
\* store happens in a later step, when a generation call ends.  So two
\* requests with one key can both miss and both generate (the witness).
C21_GenerationOnEveryMiss ==
  [][/\ \A q \in InFlight' :
          StartsGeneration(q)
            => /\ KeyOf(q) \notin DOMAIN poemCache
               /\ ~q.probeFailed
               /\ q.genCalls = 1
     /\ (/\ last' # last
         /\ last'.pc = "done"
         /\ last'.route = POST
         /\ last'.probeCalls = 1
         /\ last'.genCalls = 0)
          => \/ last'.probeFailed
             \/ /\ KeyOf(last') \in DOMAIN poemCache
                /\ last'.ret.v = poemCache[KeyOf(last')]
     /\ poemCache' # poemCache
          => /\ last'.pc = "done"
             /\ last'.genCalls = 1
             /\ \E q \in InFlight :
                  /\ q.pc = "generatePoem"
                  /\ KeyOf(q) = KeyOf(last')
                  /\ CopiesIn(q, reqs') < CopiesIn(q, reqs)]_vars

\* two requests with the same key await their real generation calls
C21_Witness ==
  \E q1 \in InFlight, q2 \in InFlight :
    /\ q1.pc = "generatePoem" /\ q2.pc = "generatePoem"
    /\ q1.genCalls = 1 /\ q2.genCalls = 1
    /\ KeyOf(q1) = KeyOf(q2)
    /\ KeyOf(q1) \notin DOMAIN poemCache
    /\ (q1 # q2 \/ CopiesIn(q1, reqs) >= 2)

\* a poem request ends in this step, with record last'
Completes == last' # last /\ last'.pc = "done" /\ last'.route = POST

C23_LimiterGatesEveryRequest ==
  [][\A c \in PoemClient :
       poems' = poems + 1
         => /\ hits'[c] = hits[c] + 1
            /\ hits[c] >= rateLimitMax
                 => /\ last'.pc = "done"
                    /\ last'.res = TooManyRequests
                    /\ last'.geoCalls = 0
                    /\ last'.probeCalls = 0
                    /\ last'.genCalls = 0
                    /\ last'.cacheWrites = 0
                    /\ poemCache' = poemCache
                    /\ locationNameCache' = locationNameCache]_vars

\* C24: a poem request issues at most one geocoding call, one probe and one
\* real generation call; the probe is issued when the geocoding call has
\* ended, the generation call when the probe of the same request has ended
\* with success, and a request that awaits one call has not issued a later
\* one.
C24_OneCallEachInOrder ==
  \A q \in Records :
    q.route = POST
      => /\ q.geoCalls <= 1 /\ q.probeCalls <= 1 /\ q.genCalls <= 1
         /\ q.probeCalls = 1 => q.geoCalls = 1 /\ q.pc # "getLocationInfo"
         /\ q.genCalls = 1
              => /\ q.probeCalls = 1
                 /\ ~q.probeFailed
                 /\ q.pc \in {"generatePoem", "done"}
         /\ q.pc = "getLocationInfo" => q.geoCalls = 1 /\ q.probeCalls = 0
         /\ q.pc = "isOllamaAvailable" => q.probeCalls = 1 /\ q.genCalls = 0
         /\ q.pc = "generatePoem" => q.genCalls = 1

C24_Witness ==
  /\ Answered
  /\ last.geoCalls = 1
  /\ last.probeCalls = 1
  /\ last.genCalls = 1
  /\ ~last.probeFailed
  /\ last.geoFailed
  /\ last.genFailed

\* the names the Location Cache must not hold
NotAName == {"", "unknown location"}

\* C25 as stated: the Location Cache holds only real names, and a call of
\* getLocationName made after a call for the same rounded coordinates has
\* failed calls the geocoder again.
C25_RetryCallsGeocoder ==
  /\ \A k \in DOMAIN locationNameCache :
       locationNameCache[k].t = "string" /\ locationNameCache[k].s \notin NotAName
  /\ \A q \in Records :
       (q.route = GETLOCATIONNAME /\ q.retry) => q.geoCalls = 1

\* C25 as amended: the Location Cache holds only real names; it changes
\* only when a geocoder call has produced a name, which is then stored
\* under the call's key, so a failed or nameless resolution leaves it as it
\* was.  A call whose key is not cached calls the geocoder; a call whose key
\* is cached returns the cached name.  A call made after a failed resolution
\* of the same rounded coordinates is therefore never answered with a
\* failure from the cache: it calls the geocoder again, unless a concurrent
\* resolution has cached a name for the key in the meantime.
C25_FailuresNotCached ==
  [][/\ \A k \in DOMAIN locationNameCache' :
          locationNameCache'[k].t = "string" /\ locationNameCache'[k].s \notin NotAName
     /\ (last' # last /\ last'.route = GETLOCATIONNAME)
          => /\ last'.pc = "done"
             /\ IF last'.geoCalls = 0
                THEN /\ LocationKeyOf(last') \in DOMAIN locationNameCache
                     /\ last'.name = locationNameCache[LocationKeyOf(last')]
                     /\ locationNameCache' = locationNameCache
                ELSE /\ last'.geoCalls = 1
                     /\ ~last'.cachedAtCall.hit
                     /\ IF last'.name = Null
                        THEN locationNameCache' = locationNameCache
                        ELSE /\ DOMAIN locationNameCache'
                                  = DOMAIN locationNameCache \cup {LocationKeyOf(last')}
                             /\ \A k \in DOMAIN locationNameCache' :
                                  locationNameCache'[k]
                                    = IF k = LocationKeyOf(last') THEN last'.name
                                      ELSE locationNameCache[k]
     /\ locationNameCache' # locationNameCache => last' # last
     /\ \A q \in InFlight' :
          CopiesIn(q, reqs') > CopiesIn(q, reqs)
            => /\ LocationKeyOf(q) \notin DOMAIN locationNameCache
               /\ q.geoCalls = 1
     /\ \A q \in InFlight' \cup {last'} :
          (q.route = GETLOCATIONNAME /\ q.retry)
            => q.geoCalls = 1 \/ (q.cachedAtCall.hit /\ q.name.t = "string")]_vars

\* a call made after a failed resolution of its key has called the geocoder
\* and returned a name, which is now cached
C25_Witness ==
  /\ last.pc = "done"
  /\ last.route = GETLOCATIONNAME
  /\ last.retry
  /\ last.geoCalls = 1
  /\ last.name = Str("Reno, Nevada")
  /\ LocationKeyOf(last) \in DOMAIN locationNameCache
  /\ locationNameCache[LocationKeyOf(last)] = last.name

\* C26: no step removes a key from the Poem Cache or from the Location
\* Cache, whatever CACHE_TTL is set to and however many limiter windows
\* elapse.
C26_CacheKeysOnlyGrow ==
  [][/\ DOMAIN poemCache \subseteq DOMAIN poemCache'
     /\ DOMAIN locationNameCache \subseteq DOMAIN locationNameCache']_vars

\* with CACHE_TTL set to 0 both caches hold entries after a window of the
\* limiter has elapsed
C26_Witness ==
  /\ env.CACHE_TTL = Str("0")
  /\ CACHE_TTL = Val(0)
  /\ Cardinality(DOMAIN poemCache) = 2
  /\ Cardinality(DOMAIN locationNameCache) = 2
  /\ poems = MaxPoems
  /\ \A c \in PoemClient : hits[c] = 0

\* the service could not be reached: the fetch was rejected
Unreachable(o) == o.rejects

\* the service answered with an OK status, but not with JSON that has a
\* generated field
Malformed(o) ==
  ~o.rejects /\ Ok(o.status) /\ (~o.parses \/ o.isNull \/ ~Truthy(o.response))

NoEntry == [hit |-> FALSE, poem |-> ""]

\* C27 as stated: what generatePoem reports after an unreachable service
\* differs from what it reports after a malformed answer, for the probe as
\* well as for the real generation call.
C27_FailuresDistinguished ==
  call.fn = "generatePoem"
    => /\ Unreachable(call.probe)
            => \A po \in ProbeOutcomes, go \in GenOutcomes :
                 Malformed(po) => generatePoemReport(po, NoEntry, go) # call.ret
       /\ (isOllamaAvailable(call.probe) /\ Unreachable(call.gen))
            => \A go \in GenOutcomes :
                 Malformed(go) => generatePoemReport(call.probe, NoEntry, go) # call.ret

\* C27 as amended: after a probe that failed in any way (unreachable, error
\* status, malformed answer) generatePoem returns one and the same text, the
\* unavailability sentence, and throws nothing; after a successful probe it
\* throws on every failure of the real generation call, with a message for
\* an unreachable service that differs from the message for every malformed
\* answer.
C27_OnlyGenerationDistinguishes ==
  call.fn = "generatePoem"
    => /\ (Unreachable(call.probe) \/ Malformed(call.probe) \/ ~Ok(call.probe.status))
            => call.ret = [threw |-> FALSE, v |-> UnavailableMessage]
       /\ (isOllamaAvailable(call.probe)
             /\ (Unreachable(call.gen) \/ Malformed(call.gen) \/ ~Ok(call.gen.status)))
            => /\ call.ret.threw
               /\ call.ret.v \notin {"", UnavailableMessage}
       /\ (isOllamaAvailable(call.probe) /\ Unreachable(call.gen))
            => \A go \in GenOutcomes :
                 Malformed(go) => generatePoemReport(call.probe, NoEntry, go) # call.ret

C27_Witness ==
  /\ call.fn = "generatePoem"
  /\ isOllamaAvailable(call.probe)
  /\ Unreachable(call.gen)
  /\ call.ret = [threw |-> TRUE, v |-> FetchErrorMessage]

\* a text that Number() converts to a number: digits between white space
\* (the empty text converts to 0)
NumericText(t) == DigitPrefixLen(trim(t)) = Len(trim(t))

\* the argument v is missing, is not a string, or does not split at sep
\* into n components that are numbers
Unsplittable(v, sep, n) ==
  \/ v.t # "string"
  \/ LET parts == split(v.s, sep)
     IN  Len(parts) < n \/ \E i \in 1..n : ~NumericText(parts[i])

TimesOfDay == {"morning", "afternoon", "evening", "night"}

Seasons == {"spring", "summer", "autumn", "winter"}

C29_Key == cacheKey("Reno, Nevada", "09:57", "2025-03-01")

\* the request just answered was for C29_Key and got as far as its probe
AnsweredForKey == Answered /\ last.probeCalls = 1 /\ KeyOf(last) = C29_Key

\* the generation service was healthy for the request with record q: its
\* probe succeeded and its real call, if issued, was answered with a poem
HealthyFor(q) ==
  /\ ~q.probeFailed
  /\ q.genCalls = 1 => (~q.genFailed /\ q.raw.t = "string" /\ trim(q.raw.s) # "")

\* C29 as stated, for one key: once a request for the key has ended in a
\* failed probe or a failed generation call, with no other request in
\* flight, every later request for the key that finds the service healthy
\* generates a poem and caches it.
C29_FailedThenGenerates ==
  [](  (AnsweredForKey /\ InFlight = {} /\ (last.probeFailed \/ last.genFailed))
         => [](  (AnsweredForKey /\ HealthyFor(last))
                   => /\ last.genCalls = 1
                      /\ last.cacheWrites = 1
                      /\ C29_Key \in DOMAIN poemCache
                      /\ poemCache[C29_Key] = last.ret.v ) )

\* the messages generatePoem reports failures with
FailureMessages ==
  {UnavailableMessage, FetchErrorMessage, "Failed to parse Ollama API response",
   "Unexpected Ollama API response format", "Failed to generate poem"}

\* C29 as amended: the Poem Cache changes only in the step in which a real
\* generation call ends with a text; every other end of a request (failed
\* probe, error status, unparseable or incomplete answer, rejection by the
\* limiter or the validation, cache hit) leaves every entry as it was, and
\* no failure message is ever an entry.  A later request for the same key
\* whose probe succeeds issues the real generation call if no text is
\* cached for the key, and returns the cached text without generating if
\* one is.
C29_FailureLeavesCache ==
  [][/\ poemCache' # poemCache
          => /\ Completes
             /\ last'.genCalls = 1
             /\ ~last'.probeFailed
             /\ ~last'.genFailed
             /\ last'.returned
     /\ (Completes /\ (last'.probeFailed \/ last'.genFailed \/ last'.ret.threw))
          => poemCache' = poemCache /\ last'.cacheWrites = 0
     /\ \A k \in DOMAIN poemCache' : poemCache'[k] \notin FailureMessages
     /\ (Completes /\ last'.probeCalls = 1 /\ ~last'.probeFailed)
          => IF KeyOf(last') \in DOMAIN poemCache /\ ~InFlightMiss(KeyOf(last'))
             THEN last'.genCalls = 0 /\ last'.ret.v = poemCache[KeyOf(last')]
             ELSE KeyOf(last') \notin DOMAIN poemCache => last'.genCalls = 1]_vars

\* a request whose generation call failed has left the entry of its key,
\* stored by a concurrent request, as it was
C29_Witness ==
  /\ Answered
  /\ last.genCalls = 1
  /\ last.genFailed
  /\ last.res.status = 500
  /\ KeyOf(last) \in DOMAIN poemCache
  /\ poemCache[KeyOf(last)] \in GeneratedTexts

\* C30: every value stored in the Poem Cache is a non-empty text, and a
\* poem request served from the cache (successful probe, no real generation
\* call) is never answered with status 500, whatever the generation
\* service has answered, a response field of whitespace included.
C30_CachedTextsNonEmpty ==
  /\ \A k \in DOMAIN poemCache : poemCache[k] # ""
  /\ (Answered /\ last.probeCalls = 1 /\ ~last.probeFailed /\ last.genCalls = 0)
       => last.res.status # 500

\* the request with record q passed the limiter
Admitted(q) == q.route = POST /\ q.res.status # 429 /\ q.res.kind # "html"

\* C31: every poem request the limiter admits gets exactly one response,
\* with status 200, 400 or 500, when every upstream call returns or fails:
\* a request in flight has no response yet, it leaves the requests in
\* flight only with its response, which is the one being sent, no request
\* stays in flight for ever, and every 200 response carries a non-empty
\* poem.
C31_ExactlyOneResponse ==
  /\ [](\A q \in InFlight : q.route = POST => q.pc # "done" /\ q.res = NoResponse)
  /\ []((Answered /\ Admitted(last))
          => /\ last.res.status \in {200, 400, 500}
             /\ last.res.status = 200 => last.res.kind = "poem" /\ last.res.poem # "")
  /\ [][/\ BagCardinality(reqs') < BagCardinality(reqs)
            => /\ BagCardinality(reqs') = BagCardinality(reqs) - 1
               /\ Completes
               /\ last'.res # NoResponse
        /\ Completes => last = IdleReq]_vars
  /\ <>[](InFlight = {})

\* a request that made its three upstream calls has its 200 response
C31_Witness ==
  /\ Answered
  /\ last.geoCalls = 1 /\ last.probeCalls = 1 /\ last.genCalls = 1
  /\ last.res.status = 200
  /\ InFlight = {}

\* the sentence the page looks for in a poem, and the message it shows then
UnavailableSentence == "Sorry, the poem generation service is currently unavailable"

UnavailableShown ==
  "The poem generation service is currently unavailable. Please try again later."

\* a step in which a fetch of the page's generatePoem ends
FetchEnds == page'.fetching < page.fetching

\* C32: the page never renders a text that contains the server's
\* unavailability sentence as a poem, neither as title nor as text; for
\* such a text displayPoem does what showError does, and the step in which
\* a fetch ends with that message leaves the error panel visible, the poem
\* and loading panels hidden, and the poem title and text as they were.
C32_UnavailabilityNeverRendered ==
  [][FetchEnds
       => /\ ~includes(page'.poemText, UnavailableSentence)
          /\ ~includes(page'.poemTitle, UnavailableSentence)
          /\ \A a \in PoemAnswers :
                includes(a.poem, UnavailableSentence)
                  => displayPoem(page, a.poem) = showError(page, UnavailableShown)
          /\ (~page'.errorHidden /\ page'.errorText = UnavailableShown)
               => /\ page'.poemHidden
                  /\ page'.loadingHidden
                  /\ page'.poemTitle = page.poemTitle
                  /\ page'.poemText = page.poemText]_vars

\* the unavailability message is shown while the poem displayed before it
\* is kept, hidden
C32_Witness ==
  /\ ~page.errorHidden
  /\ page.errorText = UnavailableShown
  /\ page.poemHidden
  /\ page.poemTitle = "Truckee Dawn"
  /\ page.poemText # ""

\* the panels of page p that do not carry the class hidden
VisiblePanels(p) ==
  {x \in {"loading", "poem-content", "error-message"} :
     \/ x = "loading" /\ ~p.loadingHidden
     \/ x = "poem-content" /\ ~p.poemHidden
     \/ x = "error-message" /\ ~p.errorHidden}

\* the poems among the answers to the page's fetch that displayPoem
\* renders: those that are neither empty nor the unavailability message
RenderedPoems == {a.poem : a \in PoemAnswers} \ {"", UnavailableMessage}

\* C33: in every state of the page exactly one of the loading, poem and
\* error panels is visible, the loading panel alone in the document as
\* it is loaded; called in any state (displayPoem: in any state with a
\* fetch pending, where it can be called), showLoading leaves
\* only the loading panel visible, showError only the error panel, and
\* displayPoem only the poem panel when it renders its text and only the
\* error panel when it does not.
C33_ExactlyOnePanel ==
  /\ Cardinality(VisiblePanels(page)) = 1
  /\ VisiblePanels(Document(page.geolocation)) = {"loading"}
  /\ VisiblePanels(showLoading(page)) = {"loading"}
  /\ VisiblePanels(showError(page, "Failed to generate poem. Please try again later."))
       = {"error-message"}
  /\ page.fetching > 0
       => \A a \in TimerAnswers :
            VisiblePanels(displayPoem(page, a.poem))
              = IF a.poem \in RenderedPoems THEN {"poem-content"} ELSE {"error-message"}

\* the poem panel alone is visible, after the loading and the error panel
\* have been
C33_Witness ==
  /\ VisiblePanels(page) = {"poem-content"}
  /\ page.poemText # ""
  /\ page.errorText = UnavailableShown
  /\ page.fetching = 0

\* the countdown intervals of page p that are active
CountdownTimers(p) == {t \in p.timers : t.fn = "countdown"}

\* C34: at most one poem-refresh interval and at most one countdown
\* interval are active, and they are the ones the page's two variables
\* name; a step in which a location is obtained leaves none of the
\* intervals that were active before it and starts one of each.
C34_OnePairOfIntervals ==
  [][/\ Cardinality(RefreshTimers(page')) <= 1
     /\ Cardinality(CountdownTimers(page')) <= 1
     /\ page'.timers = RefreshTimers(page') \cup CountdownTimers(page')
     /\ \A t \in RefreshTimers(page') : t.id = page'.refreshInterval
     /\ \A t \in CountdownTimers(page') : t.id = page'.countdownInterval
     /\ page'.nextTimer > page.nextTimer
          => /\ \A t \in page.timers : \A u \in page'.timers : u.id # t.id
             /\ Cardinality(RefreshTimers(page')) = 1
             /\ Cardinality(CountdownTimers(page')) = 1
     /\ page'.nextTimer = page.nextTimer
          => {t.id : t \in page'.timers} = {t.id : t \in page.timers}]_vars

\* a third location has been obtained while another acquisition, started
\* before it arrived, is still pending; one pair of intervals is active
C34_Witness ==
  /\ page.locating = 1
  /\ page.locationDisplay \notin {"Requesting location...", "Location unavailable"}
  /\ page.userLocation.set
  /\ page.nextTimer = 6
  /\ Cardinality(page.timers) = 2

LocationRequired == "Location is required to generate a poem."

\* C35: the page sends no poem request while it has no location: a fetch
\* starts only in a step that ends with userLocation set, none is pending
\* while it is unset, generatePoem called with userLocation unset does
\* what showError does and starts no fetch, and userLocation, once set,
\* stays set, whatever the geolocation callbacks do later.
C35_NoRequestWithoutLocation ==
  [][/\ page'.fetching > page.fetching => page'.userLocation.set
     /\ ~page'.userLocation.set
          => /\ page'.fetching = 0
             /\ generatePoem(page') = showError(page', LocationRequired)
             /\ generatePoem(page').fetching = 0
     /\ page.userLocation.set => page'.userLocation.set]_vars

\* the retry button was clicked with no location: the error is shown and
\* no fetch is pending; a location is still awaited
C35_Witness ==
  /\ ~page.userLocation.set
  /\ ~page.errorHidden
  /\ page.errorText = LocationRequired
  /\ page.fetching = 0
  /\ page.locationDisplay = "Location unavailable"

\* C36: the key of the Poem Cache is injective on validated requests: no
\* place, validated time and validated date other than those of the call
\* give the call's key, whatever the place contains, and a call that finds
\* its key cached is served the poem written for its own place, time and
\* date.
C36_KeyInjective ==
  call.fn = "cacheKey"
    => /\ \A r \in KeyPlaces \X KeyTimes \X KeyDates :
            (/\ cacheKey(r[1], r[2], r[3]) = call.text
             /\ validateTime(Str(r[2]))
             /\ validateDate(Str(r[3])))
              => /\ r[1] = call.location
                 /\ Str(r[2]) = call.timeStr
                 /\ Str(r[3]) = call.dateStr
       /\ call.ret.v # ""
            => call.ret.v = PoemFor(call.location, call.timeStr.s, call.dateStr.s)

\* a call for a place that ends like a key misses the poem cached for the
\* place it starts with
C36_Witness ==
  /\ call.fn = "cacheKey"
  /\ call.location = "Reno-09:57-2025-03-01"
  /\ call.ret.v = ""
  /\ cacheKey("Reno", "09:57", "2025-03-01") \in DOMAIN poemCache

\* a second passes on a page whose countdown interval is active
CountdownTicks ==
  /\ page'.timers # page.timers
  /\ page'.nextTimer = page.nextTimer
  /\ CountdownTimers(page) # {}

\* C37: between the callbacks of the page the countdown variable is within
\* 1..60 and the countdown display shows a number within 0..60; a tick of
\* the countdown interval displays the variable less one and leaves the
\* variable at that value, or at 60 when that value is 0.
C37_CountdownInRange ==
  [][/\ page'.countdown \in 1..60
     /\ page'.countdownText \in 0..60
     /\ CountdownTicks
          => /\ page'.countdownText = page.countdown - 1
             /\ page'.countdown = IF page.countdown = 1 THEN 60 ELSE page.countdown - 1]_vars

\* the display shows 0 and the variable is back at 60
C37_Witness ==
  /\ page.countdownText = 0
  /\ page.countdown = 60
  /\ CountdownTimers(page) # {}

====
